---- MODULE Spec2Model ----
(***************************************************************************)
(* The exoskeleton viewer: the ExoskeletonCanvas render engine             *)
(* (src/components/ExoskeletonCanvas.tsx), the pose detector hook with its  *)
(* detector singleton and result handler (src/hooks/usePoseDetector.ts),   *)
(* and the landmarks effect of the host App (src/unnamed/part_000).        *)
(*                                                                         *)
(* Numbers.  Coordinates, angles and zoom are JavaScript doubles in the    *)
(* code.  Here they are fixed-point integers counted in 1/Unit, and every  *)
(* product with a fractional factor is rounded to the nearest integer      *)
(* (RoundDiv), which stands for the rounding of the floating-point         *)
(* operation.                                                              *)
(***************************************************************************)
EXTENDS Integers, Sequences, FiniteSets, TLC

\* ------------------------------------------------------------------ bounds
\* Resolution of the fixed-point numbers: 1.0 is Unit.
Unit == 100000
\* How many times the mount effect may run (mount, unmount, mount, ...).
MaxMounts == 2
\* How many frame callbacks run in the lifecycle specification.
MaxTicks == 2
\* How many pose updates the host delivers in the smoothing specification.
MaxPoseUpdates == 2
\* How many distinct complete landmark samples the detector produces.
NumSamples == 1
\* The number of ticks the convergence statement speaks about.
ConvergeTicks == 200
\* A number of ticks after which a transition is still under way.
MidFlight == 10
\* How many components use the pose detector hook at the same time.
MaxConsumers == 2
\* How many released effects of one component may have a suspended setupPose.
MaxStale == 1
\* How many image uploads may be under way at the same time.
MaxUploads == 2
\* How many frame callbacks run in the specification of exact interpolation.
ExactTicks == 3

\* --------------------------------------------------------- program constants
\* POSE_SCALE = 2.5, in tenths.
POSE_SCALE_TENTHS == 25
\* current.lerp(target, 0.08), in hundredths.
KeypointAlphaPct == 8
\* THREE.MathUtils.lerp(..., 0.1), in hundredths.
ControlAlphaPct == 10
\* The detector hook accepts exactly this many world landmarks.
LandmarkCount == 33

\* LandmarkMap: keypoint name -> index into the landmark array.
LandmarkMap ==
    [ NOSE |-> 0, LEFT_SHOULDER |-> 11, RIGHT_SHOULDER |-> 12, LEFT_ELBOW |-> 13,
      RIGHT_ELBOW |-> 14, LEFT_WRIST |-> 15, RIGHT_WRIST |-> 16, LEFT_HIP |-> 23,
      RIGHT_HIP |-> 24, LEFT_KNEE |-> 25, RIGHT_KNEE |-> 26, LEFT_ANKLE |-> 27,
      RIGHT_ANKLE |-> 28 ]

\* The five line parts created from `materials`, in creation order.
Parts == <<"torso", "armL", "armR", "legL", "legR">>

PartSet == {Parts[i] : i \in 1..Len(Parts)}

\* The keys of a keypoint set (createDefaultPose / newPoints).
Names ==
    { "head", "neck", "shoulderL", "shoulderR", "hipL", "hipR", "hipCenter",
      "elbowL", "elbowR", "wristL", "wristR", "kneeL", "kneeR", "ankleL", "ankleR" }

\* ------------------------------------------------------------------ numbers
Abs(n) == IF n < 0 THEN -n ELSE n

\* n / d rounded to the nearest integer, halves away from zero (d > 0).
RoundDiv(n, d) ==
    IF n >= 0 THEN (2 * n + d) \div (2 * d) ELSE -((2 * (-n) + d) \div (2 * d))

\* The decimal literal h/100 as a fixed-point number.
Lit(h) == RoundDiv(h * Unit, 100)

\* Math.PI as a fixed-point number.
Pi == RoundDiv(314159 * (Unit \div 1000), 100)

Vec(x, y, z) == [x |-> x, y |-> y, z |-> z]

\* THREE.Vector3.equals
VecEquals(a, b) == a.x = b.x /\ a.y = b.y /\ a.z = b.z

\* One coordinate of THREE.Vector3.lerp:  x += (v.x - x) * alpha
LerpCoord(x, v, pct) == x + RoundDiv((v - x) * pct, 100)

\* THREE.Vector3.lerp(v, alpha)
VecLerp(a, v, pct) ==
    Vec(LerpCoord(a.x, v.x, pct), LerpCoord(a.y, v.y, pct), LerpCoord(a.z, v.z, pct))

\* THREE.MathUtils.lerp(x, y, t) = (1 - t) * x + t * y
MathLerp(x, y, pct) == RoundDiv((100 - pct) * x + pct * y, 100)

RECURSIVE Gcd(_, _)
Gcd(a, b) == IF b = 0 THEN a ELSE Gcd(b, a % b)

\* clientWidth / clientHeight as the double the division yields: a ratio in
\* lowest terms, Infinity for w/0 and NaN for 0/0.
Ratio(w, h) ==
    IF h = 0
    THEN (IF w = 0 THEN [kind |-> "NaN", num |-> 0, den |-> 0]
                   ELSE [kind |-> "Infinity", num |-> 0, den |-> 0])
    ELSE [kind |-> "finite", num |-> w \div Gcd(w, h), den |-> h \div Gcd(w, h)]

\* ---------------------------------------------------------------- keypoints
\* createDefaultPose: the fixed fallback keypoint set.
createDefaultPose ==
    [ head      |-> Vec(0, Lit(80), 0),          neck      |-> Vec(0, Lit(60), 0),
      shoulderL |-> Vec(-Lit(40), Lit(60), 0),   shoulderR |-> Vec(Lit(40), Lit(60), 0),
      hipL      |-> Vec(-Lit(25), -Lit(10), 0),  hipR      |-> Vec(Lit(25), -Lit(10), 0),
      hipCenter |-> Vec(0, -Lit(10), 0),         elbowL    |-> Vec(-Lit(80), Lit(20), 0),
      elbowR    |-> Vec(Lit(80), Lit(20), 0),    wristL    |-> Vec(-Lit(120), -Lit(20), 0),
      wristR    |-> Vec(Lit(120), -Lit(20), 0),  kneeL     |-> Vec(-Lit(25), -Lit(60), 0),
      kneeR     |-> Vec(Lit(25), -Lit(60), 0),   ankleL    |-> Vec(-Lit(25), -Lit(110), 0),
      ankleR    |-> Vec(Lit(25), -Lit(110), 0) ]

\* A placeholder keypoint set for a points field that is undefined.
NoPose == [k \in Names |-> Vec(0, 0, 0)]

\* threeState.current.currentPoints / targetPoints when undefined.
Undefined == [def |-> FALSE, obj |-> 0, id |-> 0, pts |-> NoPose]

\* A keypoint set object created while mount `g` is the live one.  `id` is
\* the object's identity: createDefaultPose and the newPoints literal build a
\* new object with a new Vector3 for every key, so two sets share a vector
\* exactly when they are the same object.
Points(g, id, pts) == [def |-> TRUE, obj |-> g, id |-> id, pts |-> pts]

\* The identity of a set created now: an object other than the current set,
\* the only set that stays referenced when the target is replaced.
\* Identities are opaque, so the least such number stands for any of them.
FreshSet(cur) == IF cur.id = 1 THEN 2 ELSE 1

\* ---------------------------------------------------------------- landmarks
\* The landmark argument of updatePose: null, or an array of `len` entries.
\* `id` selects the positions the array holds (SamplePoint); arrays with the
\* same `id` and different `rest` hold the same positions at the indices of
\* LandmarkMap and different positions everywhere else.
NullLandmarks == [kind |-> "null", len |-> 0, id |-> 0, rest |-> 0]

ArrayLandmarks(n, k) == [kind |-> "array", len |-> n, id |-> k, rest |-> 0]

VariantLandmarks(n, k, r) == [kind |-> "array", len |-> n, id |-> k, rest |-> r]

Rests == {0, 1}

\* The array lengths tried: empty, one short of the highest mapped index,
\* exactly 33, and more than 33.
Lengths == {0, 28, LandmarkCount, LandmarkCount + 1}

LandmarkInputs ==
    {NullLandmarks} \cup {ArrayLandmarks(n, k) : n \in Lengths, k \in 1..NumSamples}

\* The position stored at index i of sample k (landmark space, metres).
SamplePoint(k, i) ==
    Vec(Lit((((i * 3 + k * 5) % 7) - 3) * 10),
        Lit((((i * 5 + k) % 9) - 4) * 10),
        Lit((((i + 2 * k) % 5) - 2) * 5))

\* landmarks[i] is undefined beyond the array's length.
HasIndex(l, i) == l.kind = "array" /\ i < l.len

\* `landmarks && landmarks.length > 0`
Truthy(l) == l.kind = "array" /\ l.len > 0

\* toVec3: (x * S, -y * S, -z * S)
Scale(v) == RoundDiv(v * POSE_SCALE_TENTHS, 10)

toVec3(p) == Vec(Scale(p.x), Scale(-p.y), Scale(-p.z))

\* landmarks[i]
Entry(l, i) ==
    SamplePoint(IF i \in {LandmarkMap[k] : k \in DOMAIN LandmarkMap} THEN l.id
                ELSE l.id + l.rest, i)

At(l, i) == toVec3(Entry(l, i))

\* toVec3(a).clone().lerp(toVec3(b), 0.5)
Midpoint(a, b) == VecLerp(a, b, 50)

\* The object literal `newPoints` reads these indices; toVec3(undefined)
\* throws a TypeError on `p.x`.
UsedIndices == {LandmarkMap[k] : k \in DOMAIN LandmarkMap}

MappingThrows(l) == \E i \in UsedIndices : ~HasIndex(l, i)

\* A mapping that takes the head from landmark 1 (left eye, inner) instead
\* of the nose.
MapLandmarksHeadFromEye(l) ==
    [ head      |-> At(l, LandmarkMap.NOSE + 1),
      neck      |-> Midpoint(At(l, LandmarkMap.LEFT_SHOULDER), At(l, LandmarkMap.RIGHT_SHOULDER)),
      shoulderL |-> At(l, LandmarkMap.LEFT_SHOULDER),
      shoulderR |-> At(l, LandmarkMap.RIGHT_SHOULDER),
      hipL      |-> At(l, LandmarkMap.LEFT_HIP),
      hipR      |-> At(l, LandmarkMap.RIGHT_HIP),
      hipCenter |-> Midpoint(At(l, LandmarkMap.LEFT_HIP), At(l, LandmarkMap.RIGHT_HIP)),
      elbowL    |-> At(l, LandmarkMap.LEFT_ELBOW),
      elbowR    |-> At(l, LandmarkMap.RIGHT_ELBOW),
      wristL    |-> At(l, LandmarkMap.LEFT_WRIST),
      wristR    |-> At(l, LandmarkMap.RIGHT_WRIST),
      kneeL     |-> At(l, LandmarkMap.LEFT_KNEE),
      kneeR     |-> At(l, LandmarkMap.RIGHT_KNEE),
      ankleL    |-> At(l, LandmarkMap.LEFT_ANKLE),
      ankleR    |-> At(l, LandmarkMap.RIGHT_ANKLE) ]

\* The `newPoints` literal built from a landmark array.
MapLandmarks(l) ==
    [ head      |-> At(l, LandmarkMap.NOSE),
      neck      |-> Midpoint(At(l, LandmarkMap.LEFT_SHOULDER), At(l, LandmarkMap.RIGHT_SHOULDER)),
      shoulderL |-> At(l, LandmarkMap.LEFT_SHOULDER),
      shoulderR |-> At(l, LandmarkMap.RIGHT_SHOULDER),
      hipL      |-> At(l, LandmarkMap.LEFT_HIP),
      hipR      |-> At(l, LandmarkMap.RIGHT_HIP),
      hipCenter |-> Midpoint(At(l, LandmarkMap.LEFT_HIP), At(l, LandmarkMap.RIGHT_HIP)),
      elbowL    |-> At(l, LandmarkMap.LEFT_ELBOW),
      elbowR    |-> At(l, LandmarkMap.RIGHT_ELBOW),
      wristL    |-> At(l, LandmarkMap.LEFT_WRIST),
      wristR    |-> At(l, LandmarkMap.RIGHT_WRIST),
      kneeL     |-> At(l, LandmarkMap.LEFT_KNEE),
      kneeR     |-> At(l, LandmarkMap.RIGHT_KNEE),
      ankleL    |-> At(l, LandmarkMap.LEFT_ANKLE),
      ankleR    |-> At(l, LandmarkMap.RIGHT_ANKLE) ]

\* The keypoint set updatePose computes for its argument (when it does not
\* throw): the mapped set for a non-empty array, the default pose otherwise.
NewPoints(l) == IF Truthy(l) THEN MapLandmarks(l) ELSE createDefaultPose

\* -------------------------------------------------------------------- state
VARIABLES
    threeState,       \* threeState.current: the engine's references
    three,            \* the attributes of the objects threeState.current references
    controlsRef,      \* controlsRef.current: the control target
    pendingFrames,    \* requestAnimationFrame callbacks not yet run or cancelled
    resizeListeners,  \* the handleResize closures registered on window
    mountChildren,    \* the canvas elements that are children of the host node
    released,         \* how often dispose() was called on each GPU resource
    clientSize,       \* <<clientWidth, clientHeight>> of the host node
    landmarks,        \* the App's `landmarks` state
    mounted,          \* the mount effect ran and its cleanup has not run yet
    mounts,           \* how many times the mount effect has run
    cleanupRuns,      \* how often the latest mount's cleanup has run
    ticks,            \* frame callbacks run so far (saturates)
    ticksSinceTarget, \* tick bodies run since the pose target was last set
    poseUpdates,      \* pose updates delivered so far (saturates)
    useAfterRelease,  \* some operation used a resource after its dispose()
    foreignTick,      \* a mount's animate closure ran on another mount's objects
    last,             \* the last operation, its argument and its outcome
    hook,             \* the pose detector singleton and the hook instances using it
    app               \* the App's upload state: isProcessing and the uploads under way

vars ==
    << threeState, three, controlsRef, pendingFrames, resizeListeners, mountChildren,
       released, clientSize, landmarks, mounted, mounts, cleanupRuns, ticks,
       ticksSinceTarget, poseUpdates, useAfterRelease, foreignTick, last, hook, app >>

Min(a, b) == IF a < b THEN a ELSE b

\* threeState.current = {}
EmptyState ==
    [ renderer |-> 0, scene |-> 0, camera |-> 0, model |-> 0, lineParts |-> 0,
      headMesh |-> 0, animationFrameId |-> 0,
      currentPoints |-> Undefined, targetPoints |-> Undefined ]

\* A mount effect that calls createDefaultPose once and stores the one set as
\* both the current and the target keypoints.
MountedStateShared(g) ==
    [ renderer |-> g, scene |-> g, camera |-> g, model |-> g, lineParts |-> g,
      headMesh |-> g, animationFrameId |-> 0,
      currentPoints |-> Points(g, 1, createDefaultPose),
      targetPoints |-> Points(g, 1, createDefaultPose) ]

\* The object literal assigned to threeState.current by mount number g; the
\* two calls of createDefaultPose return two objects.
MountedState(g) ==
    [ renderer |-> g, scene |-> g, camera |-> g, model |-> g, lineParts |-> g,
      headMesh |-> g, animationFrameId |-> 0,
      currentPoints |-> Points(g, 1, createDefaultPose),
      targetPoints |-> Points(g, FreshSet(Points(g, 1, createDefaultPose)),
                              createDefaultPose) ]

\* What one render call draws: the scene as the camera sees it, over the
\* renderer's clear colour.
View(th) ==
    [ aspect |-> th.aspect, size |-> th.size,
      clearColor |-> th.clearColor, clearAlpha |-> th.clearAlpha,
      rotationY |-> th.rotationY, rotationX |-> th.rotationX, scale |-> th.scale,
      geometry |-> th.geometry, headPosition |-> th.headPosition ]

\* The canvas's drawing buffer before anything was rendered into it.  The
\* scene objects change only inside animate, which ends with a render, and in
\* handleResize, which clears the canvas; so a frame in the buffer shows the
\* objects as they are, and the buffer records only whether a frame was drawn
\* and the clear colour it was drawn over.
Blank == [drawn |-> FALSE, clearColor |-> 0, clearAlpha |-> 0]

\* Attributes when no object is referenced.
NoObjects ==
    [ aspect |-> Ratio(0, 0), size |-> <<0, 0>>, clearColor |-> 0, clearAlpha |-> 0,
      rotationY |-> 0, rotationX |-> 0, scale |-> Vec(0, 0, 0),
      geometry |-> [p \in PartSet |-> <<>>], headPosition |-> Vec(0, 0, 0),
      buffer |-> Blank ]

\* renderer.render(scene, camera): the drawing buffer (preserveDrawingBuffer)
\* holds the frame just drawn.
DrawnOver(clearColor, clearAlpha) ==
    [drawn |-> TRUE, clearColor |-> clearColor, clearAlpha |-> clearAlpha]

Render(th) == [th EXCEPT !.buffer = DrawnOver(th.clearColor, th.clearAlpha)]

\* canvas.toDataURL: the picture the canvas holds.
CanvasImage(th) ==
    [ drawn |-> th.buffer.drawn,
      view |-> [View(th) EXCEPT !.clearColor = th.buffer.clearColor,
                                !.clearAlpha = th.buffer.clearAlpha] ]

\* The objects as the mount effect constructs them for a host node of size
\* w x h: the camera's aspect is w / h, the renderer is sized w x h with a
\* transparent clear colour (alpha: true), the group is untransformed, each
\* line has an empty BufferGeometry and the head mesh sits at the origin.
NewObjects(w, h) ==
    [ aspect |-> Ratio(w, h), size |-> <<w, h>>, clearColor |-> 0, clearAlpha |-> 0,
      rotationY |-> 0, rotationX |-> 0, scale |-> Vec(Unit, Unit, Unit),
      geometry |-> [p \in PartSet |-> <<>>], headPosition |-> Vec(0, 0, 0),
      buffer |-> Blank ]

\* The objects of the scene that carry a geometry and a material.
SceneObjects == PartSet \cup {"headMesh"}

Res(kind, of, g) == [kind |-> kind, of |-> of, gen |-> g]

RendererOf(g) == Res("renderer", "renderer", g)

\* Every GPU resource mount number g creates.
ResourcesOf(g) ==
    {Res("geometry", o, g) : o \in SceneObjects}
        \cup {Res("material", o, g) : o \in SceneObjects} \cup {RendererOf(g)}

AllResources == UNION {ResourcesOf(g) : g \in 1..MaxMounts}

\* The slider positions and direct arguments tried for updateControls.
ControlInputs ==
    { [rotationY |-> 0, rotationX |-> 0, zoom |-> Unit],
      [rotationY |-> Pi, rotationX |-> -(Pi \div 2), zoom |-> Lit(250)],
      [rotationY |-> 2 * Pi, rotationX |-> Pi, zoom |-> Lit(300)] }

\* The control values tried where the controls are not the subject.
DirectControls ==
    { [rotationY |-> 0, rotationX |-> 0, zoom |-> Unit],
      [rotationY |-> 2 * Pi, rotationX |-> Pi, zoom |-> Lit(300)] }

Widths == {0, 4}

Heights == {0, 3}

Last(op, lm, threw, result, hadPose) ==
    [op |-> op, lm |-> lm, threw |-> threw, result |-> result, hadPose |-> hadPose]

\* The components that call usePoseDetector.
Consumers == 1..MaxConsumers

\* The component that is the program's consumer of the hook: the App.
AppConsumer == 1

\* The values of poseError: null and the three messages.
NoError == "null"

MsgNoPose == "No se detecto una pose completa. Intenta con otra imagen."

MsgLoad == "No se pudo cargar el modelo de IA. Revisa tu conexion."

MsgNotReady == "El detector de poses no esta listo."

\* A hook instance before its effect has run: useState(false), useState(null),
\* useRef(null); `awaiting` says that setupPose is suspended at its await,
\* `stale` counts the suspended setupPose calls of effects of this component
\* whose cleanup has run (their isMounted is false).
NewConsumer ==
    [isMounted |-> FALSE, awaiting |-> FALSE, poseRef |-> 0, isPoseReady |-> FALSE,
     poseError |-> NoError, stale |-> 0]

\* The detector delivered no results object.
NoResults == [has |-> FALSE, lm |-> NullLandmarks]

\* The module state of usePoseDetector.ts when it is loaded: poseInstance and
\* posePromise are null, the MediaPipe script has not defined Pose yet.
\*   pollers        pending setTimeout(attemptInitialization, 100) callbacks
\*   constructions  how often `new Pose` was called (saturates at 2)
\*   closed         close() was called on the detector
\*   listener       the consumer whose result listener the detector holds
\*   joined         a request returned the promise of a pending initialization
\*   inFlight       images sent to the detector whose result is still to come
\*   got            the results the detector delivered in the last operation
\*   op, by         the last hook operation and its consumer
\*   onResults      the arguments of the calls of that consumer's onResults
\*   onError        and of its onError, made by the last hook operation
HookInit ==
    [ poseDefined |-> FALSE, poseInstance |-> 0, posePromise |-> "none", pollers |-> 0,
      constructions |-> 0, closed |-> FALSE, listener |-> 0, joined |-> FALSE,
      inFlight |-> 0, got |-> NoResults,
      consumers |-> [c \in Consumers |-> NewConsumer],
      op |-> "init", by |-> 0, onResults |-> <<>>, onError |-> <<>> ]

\* The App before any upload: isProcessing is false.
\*   reading[b]  uploads whose FileReader is still reading
\*   loading[b]  uploads whose Image is still loading
\* b is the isPoseReady value of the render whose handleImageUpload and
\* processImage closures the upload runs.
AppInit ==
    [ isProcessing |-> FALSE, reading |-> [b \in BOOLEAN |-> 0],
      loading |-> [b \in BOOLEAN |-> 0] ]

Init ==
    /\ hook = HookInit
    /\ app = AppInit
    /\ threeState = EmptyState
    /\ three = NoObjects
    /\ controlsRef = [rotationY |-> 0, rotationX |-> 0, zoom |-> Unit]
    /\ pendingFrames = {}
    /\ resizeListeners = {}
    /\ mountChildren = {}
    /\ released = [r \in AllResources |-> 0]
    /\ clientSize = <<4, 3>>
    /\ landmarks = NullLandmarks
    /\ mounted = FALSE
    /\ mounts = 0
    /\ cleanupRuns = 0
    /\ ticks = 0
    /\ ticksSinceTarget = 0
    /\ poseUpdates = 0
    /\ useAfterRelease = FALSE
    /\ foreignTick = FALSE
    /\ last = Last("init", NullLandmarks, FALSE, "none", FALSE)

\* ------------------------------------------------------------------ animate
\* The liveness test of animate: every destructured field is defined.
Live(ts) ==
    /\ ts.model # 0 /\ ts.renderer # 0 /\ ts.scene # 0 /\ ts.camera # 0
    /\ ts.currentPoints.def /\ ts.targetPoints.def
    /\ ts.lineParts # 0 /\ ts.headMesh # 0

\* Engine state Active: the references captureCanvas and updatePose test.
Active(ts) == ts.renderer # 0 /\ ts.scene # 0 /\ ts.camera # 0 /\ ts.targetPoints.def

\* The keypoint loop with the smoothing factor 0.01 in place of 0.08.
AdvancePoseSlow(cur, tgt) ==
    [k \in Names |->
        IF ~VecEquals(cur[k], tgt[k]) THEN VecLerp(cur[k], tgt[k], 1) ELSE cur[k]]

\* The keypoint loop: each key whose current differs from its target moves
\* toward it by the factor 0.08.
AdvancePose(cur, tgt) ==
    [k \in Names |->
        IF ~VecEquals(cur[k], tgt[k]) THEN VecLerp(cur[k], tgt[k], KeypointAlphaPct)
        ELSE cur[k]]

\* poseNeedsUpdate after the loop.
PoseNeedsUpdate(cur, tgt) == \E k \in Names : ~VecEquals(cur[k], tgt[k])

\* The `connections` literal by name: per part, the keys of currentPoints in
\* the order of the array; LineSegments draws one segment per pair.
ConnectionNames ==
    [ torso |-> <<"head", "neck", "neck", "hipCenter">>,
      armL  |-> <<"neck", "shoulderL", "shoulderL", "elbowL", "elbowL", "wristL">>,
      armR  |-> <<"neck", "shoulderR", "shoulderR", "elbowR", "elbowR", "wristR">>,
      legL  |-> <<"hipCenter", "hipL", "hipL", "kneeL", "kneeL", "ankleL">>,
      legR  |-> <<"hipCenter", "hipR", "hipR", "kneeR", "kneeR", "ankleR">> ]

\* The `connections` literal: the points handed to setFromPoints per part.
Connections(c) ==
    [ torso |-> <<c.head, c.neck, c.neck, c.hipCenter>>,
      armL  |-> <<c.neck, c.shoulderL, c.shoulderL, c.elbowL, c.elbowL, c.wristL>>,
      armR  |-> <<c.neck, c.shoulderR, c.shoulderR, c.elbowR, c.elbowR, c.wristR>>,
      legL  |-> <<c.hipCenter, c.hipL, c.hipL, c.kneeL, c.kneeL, c.ankleL>>,
      legR  |-> <<c.hipCenter, c.hipR, c.hipR, c.kneeR, c.kneeR, c.ankleR>> ]

\* A handle requestAnimationFrame may return: the browser's handles are
\* unique, so the new one differs from every pending handle and from the one
\* the engine still stores.  Handles are opaque, so the least such number
\* stands for any of them.
FreshHandle(pending, ts) ==
    CHOOSE i \in 1..(Cardinality(pending) + 2) :
        /\ i # ts.animationFrameId
        /\ \A f \in pending : f.id # i
        /\ \A j \in 1..(i - 1) : j = ts.animationFrameId \/ \E f \in pending : f.id = j

\* An animate that requests the next frame without storing its handle.
AnimateStateUnstored(ts, id) ==
    [ ts EXCEPT
        !.currentPoints =
            IF Live(ts)
            THEN [@ EXCEPT !.pts = AdvancePose(@, ts.targetPoints.pts)]
            ELSE @ ]

\* threeState.current after one run of animate that was handed handle `id`.
AnimateState(ts, id) ==
    [ ts EXCEPT
        !.animationFrameId = id,
        !.currentPoints =
            IF Live(ts)
            THEN [@ EXCEPT !.pts = AdvancePose(@, ts.targetPoints.pts)]
            ELSE @ ]

\* An animate that turns the pitch toward the yaw target.
AnimateObjectsCoupled(ts, th, ctl) ==
    IF ~Live(ts) THEN th
    ELSE LET cur == AdvancePose(ts.currentPoints.pts, ts.targetPoints.pts)
             moved == PoseNeedsUpdate(ts.currentPoints.pts, ts.targetPoints.pts)
             zoom == MathLerp(th.scale.x, ctl.zoom, ControlAlphaPct)
         IN  [ th EXCEPT
                 !.rotationY = MathLerp(@, ctl.rotationY, ControlAlphaPct),
                 !.rotationX = MathLerp(@, ctl.rotationY, ControlAlphaPct),
                 !.scale = Vec(zoom, zoom, zoom),
                 !.geometry = IF moved THEN Connections(cur) ELSE @,
                 !.headPosition = IF moved THEN cur.head ELSE @,
                 !.buffer = DrawnOver(th.clearColor, th.clearAlpha) ]

\* The referenced objects after one run of animate; the render at its end
\* draws them over the renderer's clear colour, which animate leaves alone.
AnimateObjects(ts, th, ctl) ==
    IF ~Live(ts) THEN th
    ELSE LET cur == AdvancePose(ts.currentPoints.pts, ts.targetPoints.pts)
             moved == PoseNeedsUpdate(ts.currentPoints.pts, ts.targetPoints.pts)
             zoom == MathLerp(th.scale.x, ctl.zoom, ControlAlphaPct)
         IN  [ th EXCEPT
                 !.rotationY = MathLerp(@, ctl.rotationY, ControlAlphaPct),
                 !.rotationX = MathLerp(@, ctl.rotationX, ControlAlphaPct),
                 !.scale = Vec(zoom, zoom, zoom),
                 !.geometry = IF moved THEN Connections(cur) ELSE @,
                 !.headPosition = IF moved THEN cur.head ELSE @,
                 !.buffer = DrawnOver(th.clearColor, th.clearAlpha) ]

\* The renderer the state references has been disposed.
RendererReleased(ts, rel) == ts.renderer # 0 /\ rel[RendererOf(ts.renderer)] > 0

\* -------------------------------------------------------------------- mount
\* The mount effect (useEffect, []): builds the scene objects, stores them in
\* threeState.current, appends the canvas, registers handleResize and calls
\* animate() once, which requests the first frame and renders.
Mount ==
    /\ ~mounted
    /\ mounts < MaxMounts
    /\ LET g == mounts + 1
           ts == MountedState(g)
           th == NewObjects(clientSize[1], clientSize[2])
           id == FreshHandle(pendingFrames, ts)
       IN  /\ threeState' = AnimateState(ts, id)
           /\ three' = AnimateObjects(ts, th, controlsRef)
           /\ pendingFrames' = pendingFrames \cup {[id |-> id, gen |-> g]}
           /\ resizeListeners' = resizeListeners \cup {g}
           /\ mountChildren' = mountChildren \cup {g}
           /\ mounts' = g
    /\ mounted' = TRUE
    /\ cleanupRuns' = 0
    /\ ticksSinceTarget' = 1
    /\ last' = Last("mount", NullLandmarks, FALSE, "none", FALSE)
    /\ UNCHANGED << hook, app, controlsRef, released, clientSize, landmarks, ticks, poseUpdates,
                    useAfterRelease, foreignTick >>

\* Whether one run of animate rebuilds the line geometry (poseNeedsUpdate).
Rebuild(ts) ==
    IF Live(ts) /\ PoseNeedsUpdate(ts.currentPoints.pts, ts.targetPoints.pts)
    THEN "rebuilt" ELSE "none"

\* A mount effect that stores each object in threeState.current as soon as
\* it is created.
FailedMountStatePartial(ts, g) == [ts EXCEPT !.scene = g, !.camera = g]

\* threeState.current after a mount effect in which `new THREE.WebGLRenderer`
\* throws: the assignment of the object literal is not reached.
FailedMountState(ts, g) == ts

\* The mount effect runs and the renderer cannot be created (no WebGL
\* context): the constructor's exception leaves the effect, which returns no
\* cleanup function.
MountFails ==
    /\ ~mounted
    /\ mounts < MaxMounts
    /\ threeState' = FailedMountState(threeState, mounts + 1)
    /\ mounts' = mounts + 1
    /\ mounted' = FALSE
    /\ cleanupRuns' = 0
    /\ last' = Last("mount", NullLandmarks, TRUE, "none", FALSE)
    /\ UNCHANGED << hook, app, three, controlsRef, pendingFrames, resizeListeners,
                    mountChildren, released, clientSize, landmarks, ticks,
                    ticksSinceTarget, poseUpdates, useAfterRelease, foreignTick >>

\* A frame callback the browser runs: the animate closure of mount f.gen.
Frame(f) ==
    /\ f \in pendingFrames
    /\ LET rest == pendingFrames \ {f}
           id == FreshHandle(rest, threeState)
           live == Live(threeState)
       IN  /\ threeState' = AnimateState(threeState, id)
           /\ three' = AnimateObjects(threeState, three, controlsRef)
           /\ pendingFrames' = rest \cup {[id |-> id, gen |-> f.gen]}
           /\ ticksSinceTarget' =
                  IF live THEN Min(ticksSinceTarget + 1, ConvergeTicks) ELSE ticksSinceTarget
           /\ useAfterRelease' =
                  (useAfterRelease \/ (live /\ RendererReleased(threeState, released)))
           /\ foreignTick' = (foreignTick \/ (live /\ threeState.model # f.gen))
    /\ ticks' = Min(ticks + 1, MaxTicks)
    /\ last' = Last("frame", NullLandmarks, FALSE, Rebuild(threeState), FALSE)
    /\ UNCHANGED << hook, app, controlsRef, resizeListeners, mountChildren, released, clientSize,
                    landmarks, mounted, mounts, cleanupRuns, poseUpdates >>

\* ------------------------------------------------------------------ cleanup
\* A cleanup that cancels no frame.
CancelFrameNone(ts, pending) == pending

\* cancelAnimationFrame(threeState.current.animationFrameId), when set.
CancelFrame(ts, pending) ==
    IF ts.animationFrameId # 0 THEN {f \in pending : f.id # ts.animationFrameId}
    ELSE pending

\* A cleanup that disposes the lines and the renderer but not the head mesh.
DisposedLinesOnly(ts) ==
    (IF ts.scene # 0
     THEN {Res("geometry", o, ts.scene) : o \in PartSet}
              \cup {Res("material", o, ts.scene) : o \in PartSet}
     ELSE {})
        \cup (IF ts.renderer # 0 THEN {RendererOf(ts.renderer)} ELSE {})

\* What the cleanup disposes: the geometry and material of every object the
\* traversal of the scene meets, and the renderer.
Disposed(ts) ==
    (IF ts.scene # 0
     THEN {Res("geometry", o, ts.scene) : o \in SceneObjects}
              \cup {Res("material", o, ts.scene) : o \in SceneObjects}
     ELSE {})
        \cup (IF ts.renderer # 0 THEN {RendererOf(ts.renderer)} ELSE {})

\* A cleanup that leaves the canvas in the host node.
DetachCanvasNever(ts, children) == children

\* mountNode.removeChild(renderer.domElement) when the node contains it.
DetachCanvas(ts, children) ==
    IF ts.renderer # 0 /\ ts.renderer \in children THEN children \ {ts.renderer}
    ELSE children

\* window.removeEventListener('resize', handleResize) for the closure of mount g.
RemoveListener(listeners, g) == listeners \ {g}

\* A cleanup that does not reset threeState.current.
ClearedStateKept(ts) == ts

\* threeState.current = {} at the end of the cleanup.
ClearedState(ts) == EmptyState

\* The function the mount effect of mount g returns.
CleanupStep(g) ==
    /\ pendingFrames' = CancelFrame(threeState, pendingFrames)
    /\ resizeListeners' = RemoveListener(resizeListeners, g)
    /\ released' =
           [r \in AllResources |->
               IF r \in Disposed(threeState) THEN Min(released[r] + 1, 2) ELSE released[r]]
    /\ useAfterRelease' =
           (useAfterRelease \/ \E r \in Disposed(threeState) : released[r] > 0)
    /\ mountChildren' = DetachCanvas(threeState, mountChildren)
    /\ threeState' = ClearedState(threeState)
    /\ three' = IF ClearedState(threeState) = EmptyState THEN NoObjects ELSE three
    /\ mounted' = FALSE
    /\ cleanupRuns' = Min(cleanupRuns + 1, 2)
    /\ last' = Last("cleanup", NullLandmarks, FALSE, "none", FALSE)
    /\ UNCHANGED << hook, app, controlsRef, clientSize, landmarks, mounts, ticks, ticksSinceTarget,
                    poseUpdates, foreignTick >>

\* React runs the cleanup of the live mount (unmount, or the effect re-run).
Cleanup == mounted /\ CleanupStep(mounts)

\* The same cleanup function called once more, nothing having been mounted
\* in between (dispose() called twice).
CleanupAgain == ~mounted /\ cleanupRuns >= 1 /\ CleanupStep(mounts)

\* --------------------------------------------------------- imperative handle
\* The value updateControls stores in controlsRef.current.
StoredControls(c) == c

\* updateControls
UpdateControls(c) ==
    /\ controlsRef' = StoredControls(c)
    /\ last' = Last("updateControls", NullLandmarks, FALSE, "none", FALSE)
    /\ UNCHANGED << hook, app, threeState, three, pendingFrames, resizeListeners, mountChildren,
                    released, clientSize, landmarks, mounted, mounts, cleanupRuns, ticks,
                    ticksSinceTarget, poseUpdates, useAfterRelease, foreignTick >>

\* updatePose throws when the mapping reads an index the array lacks.
UpdatePoseThrows(ts, l) == ts.targetPoints.def /\ Truthy(l) /\ MappingThrows(l)

\* updatePose without its guard on targetPoints.
UpdatePoseStateUnguarded(ts, l, g) ==
    IF Truthy(l) /\ MappingThrows(l) THEN ts
    ELSE [ts EXCEPT !.targetPoints = Points(g, FreshSet(ts.currentPoints), NewPoints(l))]

\* updatePose that keeps the previous target when no landmarks arrive.
UpdatePoseStateStale(ts, l, g) ==
    IF ~ts.targetPoints.def \/ ~Truthy(l) \/ MappingThrows(l) THEN ts
    ELSE [ts EXCEPT !.targetPoints = Points(g, FreshSet(ts.currentPoints), MapLandmarks(l))]

\* updatePose that writes the mapped keypoints into the existing target one
\* by one, so that a throw on a missing landmark leaves the keys written
\* before it.
UpdatePoseStateInPlace(ts, l, g) ==
    IF ~ts.targetPoints.def THEN ts
    ELSE IF Truthy(l) /\ MappingThrows(l)
         THEN [ts EXCEPT !.targetPoints.pts =
                  [k \in Names |->
                      IF k = "ankleR" /\ ~HasIndex(l, LandmarkMap.RIGHT_ANKLE) THEN @[k]
                      ELSE MapLandmarks(l)[k]]]
    ELSE [ts EXCEPT !.targetPoints = Points(g, FreshSet(ts.currentPoints), NewPoints(l))]

\* threeState.current after updatePose(l), called while mount g is the latest.
UpdatePoseState(ts, l, g) ==
    IF ~ts.targetPoints.def \/ UpdatePoseThrows(ts, l) THEN ts
    ELSE [ts EXCEPT !.targetPoints = Points(g, FreshSet(ts.currentPoints), NewPoints(l))]

\* The target is a set mapped from landmarks.
HadPose(ts) == ts.targetPoints.def /\ ts.targetPoints.pts # createDefaultPose

\* updatePose(l), all but the count of pose updates.
UpdatePoseCall(l) ==
    /\ landmarks' = l
    /\ threeState' = UpdatePoseState(threeState, l, mounts)
    /\ ticksSinceTarget' =
           IF threeState.targetPoints.def /\ ~UpdatePoseThrows(threeState, l) THEN 0
           ELSE ticksSinceTarget
    /\ last' = Last("updatePose", l, UpdatePoseThrows(threeState, l), "none",
                    HadPose(threeState))
    /\ UNCHANGED << hook, app, three, controlsRef, pendingFrames, resizeListeners, mountChildren,
                    released, clientSize, mounted, mounts, cleanupRuns, ticks,
                    useAfterRelease, foreignTick >>

\* The host calls updatePose(l) with its landmarks state l.
UpdatePose(l) == UpdatePoseCall(l) /\ UNCHANGED poseUpdates

\* A captureCanvas that leaves the opaque clear colour in place.
CaptureObjectsOpaque(th) == Render([th EXCEPT !.clearColor = 0, !.clearAlpha = Unit])

\* The objects after captureCanvas: the clear colour is forced to opaque black
\* for the render and then set back to the values read before.
CaptureObjects(th) ==
    LET originalClearColor == th.clearColor
        originalClearAlpha == th.clearAlpha
        forced == Render([th EXCEPT !.clearColor = 0, !.clearAlpha = Unit])
    IN  [forced EXCEPT !.clearColor = originalClearColor,
                       !.clearAlpha = originalClearAlpha]

\* What captureCanvas returns: null without renderer, scene or camera.
CaptureResult(ts) ==
    IF ts.renderer = 0 \/ ts.scene = 0 \/ ts.camera = 0 THEN "null" ELSE "image"

\* A capture that reads the canvas before it renders the opaque frame.
CaptureImageStale(ts, th) ==
    IF CaptureResult(ts) = "null" THEN CanvasImage(NoObjects) ELSE CanvasImage(th)

\* The image captureCanvas returns (the decoded data URL; the empty canvas
\* stands for null): the canvas read right after the render over opaque
\* black.
CaptureImage(ts, th) ==
    IF CaptureResult(ts) = "null" THEN CanvasImage(NoObjects)
    ELSE CanvasImage(Render([th EXCEPT !.clearColor = 0, !.clearAlpha = Unit]))

\* captureCanvas
CaptureCanvas ==
    /\ three' = IF CaptureResult(threeState) = "null" THEN three ELSE CaptureObjects(three)
    /\ useAfterRelease' =
           (useAfterRelease
               \/ (CaptureResult(threeState) # "null" /\ RendererReleased(threeState, released)))
    /\ last' = Last("captureCanvas", NullLandmarks, FALSE, CaptureResult(threeState), FALSE)
    /\ UNCHANGED << hook, app, threeState, controlsRef, pendingFrames, resizeListeners, mountChildren,
                    released, clientSize, landmarks, mounted, mounts, cleanupRuns, ticks,
                    ticksSinceTarget, poseUpdates, foreignTick >>

\* ------------------------------------------------------------------- resize
\* handleResize without the test for a zero dimension.
HandleResizeAnySize(ts, th, w, h) ==
    IF ts.renderer = 0 \/ ts.camera = 0 THEN th
    ELSE [th EXCEPT !.aspect = Ratio(w, h), !.size = <<w, h>>, !.buffer = Blank]

\* handleResize that builds the model's transform anew.
HandleResizeResetting(ts, th, w, h) ==
    IF ts.renderer = 0 \/ ts.camera = 0 THEN th
    ELSE IF w > 0 /\ h > 0
         THEN [th EXCEPT !.aspect = Ratio(w, h), !.size = <<w, h>>, !.buffer = Blank,
                         !.rotationY = 0, !.rotationX = 0, !.scale = Vec(Unit, Unit, Unit)]
    ELSE th

\* handleResize: the objects after one run for a host node of size w x h
\* (setSize assigns the canvas's width and height, which clears the canvas).
HandleResize(ts, th, w, h) ==
    IF ts.renderer = 0 \/ ts.camera = 0 THEN th
    ELSE IF w > 0 /\ h > 0
         THEN [th EXCEPT !.aspect = Ratio(w, h), !.size = <<w, h>>, !.buffer = Blank]
    ELSE th

\* The window fires `resize`: every registered handleResize runs.
WindowResize ==
    /\ three' =
           IF resizeListeners = {} THEN three
           ELSE HandleResize(threeState, three, clientSize[1], clientSize[2])
    /\ useAfterRelease' =
           (useAfterRelease
               \/ (/\ resizeListeners # {}
                   /\ three' # three
                   /\ RendererReleased(threeState, released)))
    /\ last' = Last("resize", NullLandmarks, FALSE, "none", FALSE)
    /\ UNCHANGED << hook, app, threeState, controlsRef, pendingFrames, resizeListeners, mountChildren,
                    released, clientSize, landmarks, mounted, mounts, cleanupRuns, ticks,
                    ticksSinceTarget, poseUpdates, foreignTick >>

\* The host node is laid out anew with size w x h.
Layout(w, h) ==
    /\ clientSize # <<w, h>>
    /\ clientSize' = <<w, h>>
    /\ last' = Last("layout", NullLandmarks, FALSE, "none", FALSE)
    /\ UNCHANGED << hook, app, threeState, three, controlsRef, pendingFrames, resizeListeners,
                    mountChildren, released, landmarks, mounted, mounts, cleanupRuns,
                    ticks, ticksSinceTarget, poseUpdates, useAfterRelease, foreignTick >>

\* ------------------------------------------------------ detector result path
\* What the detector hands to the result listener: no results object, or
\* results whose poseWorldLandmarks is a landmark value.
DetectorResults ==
    {[has |-> FALSE, lm |-> NullLandmarks]}
        \cup {[has |-> TRUE, lm |-> l] : l \in LandmarkInputs}

\* The hook's result listener: exactly 33 world landmarks are passed on,
\* every other shape becomes null.
HookArg(r) ==
    IF r.has /\ r.lm.kind = "array" /\ r.lm.len = LandmarkCount THEN r.lm
    ELSE NullLandmarks

\* What the App does with a result its onResults receives, all but its
\* upload state: setLandmarks, and the landmarks effect calls updatePose when
\* the landmarks state changed.
ResultEffect(r) ==
    LET arg == HookArg(r)
        changed == ~(landmarks = NullLandmarks /\ arg = NullLandmarks)
    IN  /\ landmarks' = arg
        /\ threeState' = IF changed THEN UpdatePoseState(threeState, arg, mounts)
                         ELSE threeState
        /\ ticksSinceTarget' =
               IF changed /\ threeState.targetPoints.def THEN 0 ELSE ticksSinceTarget
        /\ last' = Last("results", arg, FALSE, "none", HadPose(threeState))
        /\ UNCHANGED << three, controlsRef, pendingFrames, resizeListeners, mountChildren,
                        released, clientSize, mounted, mounts, cleanupRuns, ticks,
                        useAfterRelease, foreignTick >>

\* A detector result reaches the hook's listener, which calls the App's
\* onResults (setLandmarks); the App's landmarks effect calls updatePose
\* when the landmarks state changed.
DetectorResultCall(r) == ResultEffect(r) /\ UNCHANGED << hook, app >>

DetectorResult(r) == DetectorResultCall(r) /\ UNCHANGED poseUpdates

\* ------------------------------------------------------- pose detector hook
\* Everything but the hook and the App's upload state.
engine ==
    << threeState, three, controlsRef, pendingFrames, resizeListeners, mountChildren,
       released, clientSize, landmarks, mounted, mounts, cleanupRuns, ticks,
       ticksSinceTarget, poseUpdates, useAfterRelease, foreignTick, last >>

\* The hook after operation `op` of consumer c, which called the consumer's
\* onResults with each of `results` and its onError with each of `errors`.
Did(h, op, c, results, errors) ==
    [h EXCEPT !.op = op, !.by = c, !.onResults = results, !.onError = errors,
              !.got = NoResults]

\* The App's upload state after the hook called the callbacks of consumer c:
\* the App's onResults and onError both call setIsProcessing(false).
Called(a, c, results, errors) ==
    IF c = AppConsumer /\ (results # <<>> \/ errors # <<>>)
    THEN [a EXCEPT !.isProcessing = FALSE]
    ELSE a

\* An attemptInitialization that tries again after a failed construction.
AttemptInitializationRetrying(h, throws) ==
    IF h.poseDefined /\ ~throws
    THEN [h EXCEPT !.constructions = Min(@ + 1, 2),
                   !.poseInstance = Min(h.constructions + 1, 2),
                   !.posePromise = "resolved"]
    ELSE [h EXCEPT !.constructions = IF h.poseDefined THEN Min(@ + 1, 2) ELSE @,
                   !.pollers = @ + 1]

\* attemptInitialization: constructs the detector when the script has defined
\* Pose (`throws`: the constructor or setOptions throws, and the promise is
\* rejected), and sets a timer to try again otherwise.
AttemptInitialization(h, throws) ==
    IF h.poseDefined
    THEN IF throws
         THEN [h EXCEPT !.constructions = Min(@ + 1, 2), !.posePromise = "rejected"]
         ELSE [h EXCEPT !.constructions = Min(@ + 1, 2),
                        !.poseInstance = Min(h.constructions + 1, 2),
                        !.posePromise = "resolved"]
    ELSE [h EXCEPT !.pollers = @ + 1]

\* initializePoseSingleton without the test of posePromise.
InitializePoseSingletonUnshared(h, throws) ==
    IF h.poseInstance # 0 THEN h
    ELSE AttemptInitialization([h EXCEPT !.posePromise = "pending"], throws)

\* initializePoseSingleton: the module state after one call.
InitializePoseSingleton(h, throws) ==
    IF h.poseInstance # 0 THEN h
    ELSE IF h.posePromise # "none"
         THEN [h EXCEPT !.joined = @ \/ h.posePromise = "pending"]
    ELSE AttemptInitialization([h EXCEPT !.posePromise = "pending"], throws)

\* The MediaPipe script finishes loading and defines Pose.
ScriptLoads ==
    /\ ~hook.poseDefined
    /\ hook' = Did([hook EXCEPT !.poseDefined = TRUE], "load", 0, <<>>, <<>>)
    /\ UNCHANGED << engine, app >>

\* A timer set by attemptInitialization fires.
PollTimer(throws) ==
    /\ hook.pollers > 0
    /\ hook' = Did(AttemptInitialization([hook EXCEPT !.pollers = @ - 1], throws),
                   "poll", 0, <<>>, <<>>)
    /\ UNCHANGED << engine, app >>

\* A component using the hook mounts: a new hook instance, whose effect sets
\* isMounted and runs setupPose up to its await.
HookMount(c, throws) ==
    /\ ~hook.consumers[c].isMounted
    /\ hook' = Did([InitializePoseSingleton(hook, throws)
                       EXCEPT !.consumers[c] =
                                  [NewConsumer EXCEPT !.isMounted = TRUE,
                                                      !.awaiting = TRUE,
                                                      !.stale = hook.consumers[c].stale]],
                   "mount", c, <<>>, <<>>)
    /\ UNCHANGED << engine, app >>

\* The detector's listener after pose.onResults(listener) by consumer c:
\* the detector holds one listener, the one set last.
BoundListener(listener, c) == c

\* setupPose of consumer c continues after its await: with the detector it
\* binds its result listener, stores the detector in poseRef and reports
\* ready; with the rejection it reports the error.
HookResume(c) ==
    /\ hook.consumers[c].awaiting
    /\ hook.posePromise \in {"resolved", "rejected"}
    /\ hook' =
           IF hook.posePromise = "resolved"
           THEN Did([hook EXCEPT !.listener = BoundListener(@, c),
                                 !.consumers[c].awaiting = FALSE,
                                 !.consumers[c].poseRef = hook.poseInstance,
                                 !.consumers[c].isPoseReady = TRUE],
                    "resume", c, <<>>, <<>>)
           ELSE Did([hook EXCEPT !.consumers[c].awaiting = FALSE,
                                 !.consumers[c].poseError = MsgLoad],
                    "resume", c, <<>>, <<MsgLoad>>)
    /\ app' = Called(app, c, <<>>, hook'.onError)
    /\ UNCHANGED engine

\* A setupPose that does not test isMounted after its await.
ResumeReleasedUntested(h, c) ==
    IF h.posePromise = "resolved"
    THEN Did([h EXCEPT !.listener = c,
                       !.consumers[c].stale = @ - 1,
                       !.consumers[c].poseRef = h.poseInstance,
                       !.consumers[c].isPoseReady = TRUE],
             "resumeReleased", c, <<>>, <<>>)
    ELSE Did([h EXCEPT !.consumers[c].stale = @ - 1,
                       !.consumers[c].poseError = MsgLoad],
             "resumeReleased", c, <<>>, <<MsgLoad>>)

\* The hook after the setupPose of a released effect of consumer c continued:
\* with the detector it returns at `if (!isMounted) return`, with the
\* rejection it skips the report under `if (isMounted)`.
ResumeReleased(h, c) ==
    Did([h EXCEPT !.consumers[c].stale = @ - 1], "resumeReleased", c, <<>>, <<>>)

\* The suspended setupPose of an effect whose cleanup has run continues.
HookResumeReleased(c) ==
    /\ hook.consumers[c].stale > 0
    /\ hook.posePromise \in {"resolved", "rejected"}
    /\ hook' = ResumeReleased(hook, c)
    /\ app' = Called(app, c, <<>>, hook'.onError)
    /\ UNCHANGED engine

\* The detector's listener after the cleanup of consumer c, whose poseRef is
\* `ref`: poseRef.current.onResults(null) when poseRef is set.
ReleasedListener(listener, c, ref) == IF ref # 0 THEN 0 ELSE listener

\* The cleanup of the hook's effect: isMounted = false (a suspended setupPose
\* stays suspended) and the listener is unbound.
HookUnmount(c) ==
    /\ hook.consumers[c].isMounted
    /\ hook.consumers[c].awaiting => hook.consumers[c].stale < MaxStale
    /\ hook' = Did([hook EXCEPT
                       !.listener = ReleasedListener(@, c, hook.consumers[c].poseRef),
                       !.consumers[c].isMounted = FALSE,
                       !.consumers[c].awaiting = FALSE,
                       !.consumers[c].stale =
                           IF hook.consumers[c].awaiting THEN @ + 1 ELSE @],
                   "unmount", c, <<>>, <<>>)
    /\ UNCHANGED << engine, app >>

\* A processImage that sends whatever the state of the hook.
SendsAlways(consumer, seen) == TRUE

\* The test of processImage: `poseRef.current && isPoseReady`, where
\* isPoseReady is the value `seen` by the render that made the closure.
Sends(consumer, seen) == consumer.poseRef # 0 /\ seen

\* The hook after processImage of consumer c, called through the closure of a
\* render that saw isPoseReady = seen: the image is sent to the detector, or
\* the error is set and reported.
ProcessImageHook(c, seen) ==
    /\ seen => hook.consumers[c].isPoseReady
    /\ IF Sends(hook.consumers[c], seen)
       THEN /\ hook.inFlight < MaxUploads
            /\ hook' = Did([hook EXCEPT !.inFlight = @ + 1], "processImage", c, <<>>, <<>>)
       ELSE hook' = Did([hook EXCEPT !.consumers[c].poseError = MsgNotReady],
                        "processImage", c, <<>>, <<MsgNotReady>>)

\* A component calls processImage.
ProcessImage(c, seen) ==
    /\ ProcessImageHook(c, seen)
    /\ app' = Called(app, c, <<>>, hook'.onError)
    /\ UNCHANGED engine

\* The detector found exactly 33 world landmarks.
Complete33(r) == r.has /\ r.lm.kind = "array" /\ r.lm.len = LandmarkCount

\* A result listener that accepts every non-empty landmark array.
ListenerCallsLenient(consumer, r) ==
    IF ~consumer.isMounted
    THEN [results |-> <<>>, poseError |-> consumer.poseError, errors |-> <<>>]
    ELSE IF r.has /\ Truthy(r.lm)
         THEN [results |-> <<r.lm>>, poseError |-> NoError, errors |-> <<>>]
    ELSE [results |-> <<NullLandmarks>>, poseError |-> MsgNoPose, errors |-> <<MsgNoPose>>]

\* The result listener of a consumer, called with the results r: what it
\* passes to onResults, the poseError it sets and what it passes to onError.
ListenerCalls(consumer, r) ==
    IF ~consumer.isMounted
    THEN [results |-> <<>>, poseError |-> consumer.poseError, errors |-> <<>>]
    ELSE IF Complete33(r)
         THEN [results |-> <<r.lm>>, poseError |-> NoError, errors |-> <<>>]
    ELSE [results |-> <<NullLandmarks>>, poseError |-> MsgNoPose, errors |-> <<MsgNoPose>>]

\* The detector finishes an image and calls the listener it holds, if any,
\* with the results r.
Deliver(r) ==
    /\ hook.inFlight > 0
    /\ LET c == hook.listener
           out == IF c = 0
                  THEN [results |-> <<>>, poseError |-> NoError, errors |-> <<>>]
                  ELSE ListenerCalls(hook.consumers[c], r)
       IN  /\ hook' =
                  [Did([hook EXCEPT
                           !.inFlight = @ - 1,
                           !.consumers =
                               IF c = 0 THEN @ ELSE [@ EXCEPT ![c].poseError = out.poseError]],
                       "results", c, out.results, out.errors)
                      EXCEPT !.got = r]
           /\ app' = Called(app, c, out.results, out.errors)
           /\ IF c = AppConsumer /\ out.results # <<>>
              THEN ResultEffect(r) /\ UNCHANGED poseUpdates
              ELSE UNCHANGED engine

\* ------------------------------------------------------------ image upload
\* Uploads that have not come to their end.
UploadsUnderWay ==
    app.reading[TRUE] + app.reading[FALSE] + app.loading[TRUE] + app.loading[FALSE]
        + hook.inFlight

\* handleImageUpload with a file: isProcessing is set, the landmarks state is
\* reset to null (the landmarks effect calls updatePose when it changed) and
\* a FileReader starts to read the file.
Upload ==
    /\ UploadsUnderWay < MaxUploads
    /\ app' = [app EXCEPT !.isProcessing = TRUE,
                          !.reading[hook.consumers[AppConsumer].isPoseReady] = @ + 1]
    /\ landmarks' = NullLandmarks
    /\ threeState' = IF landmarks # NullLandmarks
                     THEN UpdatePoseState(threeState, NullLandmarks, mounts)
                     ELSE threeState
    /\ ticksSinceTarget' =
           IF landmarks # NullLandmarks /\ threeState.targetPoints.def THEN 0
           ELSE ticksSinceTarget
    /\ last' = Last("upload", NullLandmarks, FALSE, "none", HadPose(threeState))
    /\ UNCHANGED << hook, three, controlsRef, pendingFrames, resizeListeners, mountChildren,
                    released, clientSize, mounted, mounts, cleanupRuns, ticks, poseUpdates,
                    useAfterRelease, foreignTick >>

\* reader.onload: the image element starts to load the data URL.
ReaderLoads(seen) ==
    /\ app.reading[seen] > 0
    /\ app' = [app EXCEPT !.reading[seen] = @ - 1, !.loading[seen] = @ + 1]
    /\ UNCHANGED << engine, hook >>

\* The FileReader fails (its error event): the reader has no onerror handler.
ReaderFails(seen) ==
    /\ app.reading[seen] > 0
    /\ app' = [app EXCEPT !.reading[seen] = @ - 1]
    /\ UNCHANGED << engine, hook >>

\* img.onload: processImage(img).
ImageLoads(seen) ==
    /\ app.loading[seen] > 0
    /\ ProcessImageHook(AppConsumer, seen)
    /\ app' = Called([app EXCEPT !.loading[seen] = @ - 1], AppConsumer, <<>>, hook'.onError)
    /\ UNCHANGED engine

\* img.onerror: setIsProcessing(false).
ImageFails(seen) ==
    /\ app.loading[seen] > 0
    /\ app' = [app EXCEPT !.loading[seen] = @ - 1, !.isProcessing = FALSE]
    /\ UNCHANGED << engine, hook >>

\* ------------------------------------------------------------ specifications
\* A frame callback runs, while the lifecycle specifications' budget lasts.
Tick == ticks < MaxTicks /\ \E f \in pendingFrames : Frame(f)

\* The two landmark values the App itself passes: null and 33 landmarks.
HostLandmarks ==
    {NullLandmarks} \cup {ArrayLandmarks(LandmarkCount, k) : k \in 1..NumSamples}

\* The engine's lifecycle: mounts, cleanups, frames and pose updates.
Next ==
    \/ Mount
    \/ Cleanup
    \/ CleanupAgain
    \/ Tick
    \/ \E l \in HostLandmarks : UpdatePose(l)

Spec == Init /\ [][Next]_vars

\* The imperative handle and the resize listener, on a live and on a
\* disposed engine.
NextOps ==
    \/ Mount
    \/ Cleanup
    \/ Tick
    \/ \E l \in HostLandmarks : UpdatePose(l)
    \/ \E c \in DirectControls : UpdateControls(c)
    \/ CaptureCanvas
    \/ WindowResize

SpecOps == Init /\ [][NextOps]_vars

\* The control target and its smoothing.
NextControls ==
    \/ Mount
    \/ Cleanup
    \/ Tick
    \/ \E c \in ControlInputs : UpdateControls(c)

SpecControls == Init /\ [][NextControls]_vars

\* Layout changes of the host node and resize notifications.
NextResize ==
    \/ Mount
    \/ Cleanup
    \/ Tick
    \/ WindowResize
    \/ \E w \in Widths, h \in Heights : Layout(w, h)

SpecResize == Init /\ [][NextResize]_vars

\* Every landmark value and every detector result, on a live and on a
\* disposed engine.
NextPose ==
    \/ Mount
    \/ Cleanup
    \/ Tick
    \/ \E l \in LandmarkInputs : UpdatePose(l)
    \/ \E r \in DetectorResults : DetectorResult(r)

SpecPose == Init /\ [][NextPose]_vars

\* The landmark mapping: complete samples, each in variants that differ at
\* the indices the mapping does not name.
MapInputs ==
    {VariantLandmarks(LandmarkCount, k, r) : k \in 1..(NumSamples + 1), r \in Rests}

NextMap ==
    \/ Mount
    \/ Cleanup
    \/ Tick
    \/ \E l \in MapInputs : UpdatePose(l)

SpecMap == Init /\ [][NextMap]_vars

\* Mounts that succeed and mounts whose renderer cannot be created.
NextMount ==
    \/ Mount
    \/ MountFails
    \/ Cleanup
    \/ Tick
    \/ WindowResize
    \/ \E l \in HostLandmarks : UpdatePose(l)

SpecMount == Init /\ [][NextMount]_vars

\* The pose detector hook used by several components.
NextHook ==
    \/ ScriptLoads
    \/ \E t \in BOOLEAN : PollTimer(t)
    \/ \E c \in Consumers, t \in BOOLEAN : HookMount(c, t)
    \/ \E c \in Consumers : HookResume(c)
    \/ \E c \in Consumers : HookResumeReleased(c)
    \/ \E c \in Consumers : HookUnmount(c)

SpecHook == Init /\ [][NextHook]_vars

\* A pending 100 ms timer of attemptInitialization fires.
TimerFires == \E t \in BOOLEAN : PollTimer(t)

\* The browser fires every pending timer, and the continuation of every
\* setupPose whose promise is settled runs (a microtask).  Nothing obliges
\* the script to load or a component to mount or unmount.
SpecHookFair ==
    /\ Init
    /\ [][NextHook]_vars
    /\ WF_vars(TimerFires)
    /\ \A c \in Consumers : WF_vars(HookResume(c))

\* The shapes of the results the detector delivers: no results object, no
\* world landmarks, too few, exactly 33 and too many landmarks.
ResultShapes ==
    {NoResults, [has |-> TRUE, lm |-> NullLandmarks]}
        \cup {[has |-> TRUE, lm |-> ArrayLandmarks(n, 1)] :
                  n \in {28, LandmarkCount, LandmarkCount + 1}}

\* The App and one more component that uses the hook.
Users == {AppConsumer, AppConsumer + 1}

\* The hook in use: components mount and unmount, call processImage, and
\* the detector answers every image it was sent.
NextDetect ==
    \/ ScriptLoads
    \/ \E t \in BOOLEAN : PollTimer(t)
    \/ \E c \in Users, t \in BOOLEAN : HookMount(c, t)
    \/ \E c \in Users : HookResume(c)
    \/ \E c \in Users : HookResumeReleased(c)
    \/ \E c \in Users : HookUnmount(c)
    \/ \E c \in Users, seen \in BOOLEAN : ProcessImage(c, seen)
    \/ \E r \in ResultShapes : Deliver(r)

SpecDetect == Init /\ [][NextDetect]_vars

\* The FileReader of an upload comes to its end.
ReaderEnds == \E b \in BOOLEAN : ReaderLoads(b) \/ ReaderFails(b)

\* The image element of an upload comes to its end.
ImageEnds == \E b \in BOOLEAN : ImageLoads(b) \/ ImageFails(b)

\* The detector answers an image it was sent.
DetectorAnswers == \E r \in ResultShapes : Deliver(r)

\* Image uploads in the App: the hook initializes (or fails to), the user
\* uploads files, each upload is read, loaded, sent and answered.
NextUpload ==
    \/ ScriptLoads
    \/ \E t \in BOOLEAN : PollTimer(t)
    \/ \E t \in BOOLEAN : HookMount(AppConsumer, t)
    \/ HookResume(AppConsumer)
    \/ Upload
    \/ ReaderEnds
    \/ ImageEnds
    \/ DetectorAnswers

\* The browser ends every read and every image load with one of its events,
\* and the detector answers every image.
SpecUploadFair ==
    /\ Init
    /\ [][NextUpload]_vars
    /\ WF_vars(ReaderEnds)
    /\ WF_vars(ImageEnds)
    /\ WF_vars(DetectorAnswers)

\* Resize notifications on a live engine whose pose and controls are in
\* transition; the host node takes the sizes of a visible layout.
LiveWidths == {4, 8}

LiveHeights == {3}

\* The mounted component's host node is laid out anew.
Relayout(w, h) == mounted /\ Layout(w, h)

\* The host turns and zooms the model.
TurnedControls == {c \in DirectControls : c.rotationY # 0}

NextLayout ==
    \/ Mount
    \/ Tick
    \/ \E l \in HostLandmarks : UpdatePose(l)
    \/ \E c \in TurnedControls : UpdateControls(c)
    \/ WindowResize
    \/ \E w \in LiveWidths, h \in LiveHeights : Relayout(w, h)

SpecLayout == Init /\ [][NextLayout]_vars

\* Captures of a live engine whose pose and controls are in transition.
NextCapture ==
    \/ Mount
    \/ Tick
    \/ \E l \in HostLandmarks : UpdatePose(l)
    \/ \E c \in TurnedControls : UpdateControls(c)
    \/ CaptureCanvas

SpecCapture == Init /\ [][NextCapture]_vars

\* Pose smoothing: the engine stays mounted, frames run without a budget,
\* and a bounded number of pose updates arrive, each at one of a few
\* distances (in ticks) from the update before it.
ArrivalTicks == {1, MidFlight, ConvergeTicks}

PoseArrives(l) ==
    /\ poseUpdates < MaxPoseUpdates
    /\ ticksSinceTarget \in ArrivalTicks
    /\ UpdatePoseCall(l)
    /\ poseUpdates' = poseUpdates + 1

ResultArrives(r) ==
    /\ poseUpdates < MaxPoseUpdates
    /\ ticksSinceTarget \in ArrivalTicks
    /\ DetectorResultCall(r)
    /\ poseUpdates' = poseUpdates + 1

SmoothTick == \E f \in pendingFrames : Frame(f)

NextSmooth ==
    \/ Mount
    \/ SmoothTick
    \/ \E l \in HostLandmarks : PoseArrives(l)
    \/ \E r \in DetectorResults : ResultArrives(r)

SpecSmooth == Init /\ [][NextSmooth]_vars

\* A detector result delivered while the previous transition is under way.
ResultMidFlight(r) ==
    /\ ticksSinceTarget = MidFlight
    /\ ResultArrives(r)

NextFallback ==
    \/ Mount
    \/ SmoothTick
    \/ \E r \in DetectorResults : ResultMidFlight(r)

\* The browser keeps running the pending frame callback of a visible page.
SpecSmoothFair == Init /\ [][NextFallback]_vars /\ WF_vars(SmoothTick)

\* The slider positions at the ends of the three ranges, and the middle.
RangedControls ==
    { [rotationY |-> 0, rotationX |-> 0, zoom |-> Unit],
      [rotationY |-> Pi, rotationX |-> -(Pi \div 2), zoom |-> Lit(250)],
      [rotationY |-> -Pi, rotationX |-> Pi \div 2, zoom |-> Lit(50)] }

\* A further frame callback would leave the model's rotation and scale as
\* they are.
AtRest ==
    /\ Live(threeState)
    /\ three.rotationY = MathLerp(three.rotationY, controlsRef.rotationY, ControlAlphaPct)
    /\ three.rotationX = MathLerp(three.rotationX, controlsRef.rotationX, ControlAlphaPct)
    /\ three.scale.x = MathLerp(three.scale.x, controlsRef.zoom, ControlAlphaPct)

\* The host moves the sliders: shortly after the mount, in the middle of a
\* transition that began at the mount, or when the model has come to rest.
ControlArrives(c) ==
    /\ c # controlsRef
    /\ AtRest \/ ticksSinceTarget \in {1, MidFlight}
    /\ UpdateControls(c)

\* Control smoothing: the engine stays mounted, frames run without a budget.
NextTurn ==
    \/ Mount
    \/ SmoothTick
    \/ \E c \in RangedControls : ControlArrives(c)

SpecTurn == Init /\ [][NextTurn]_vars

\* ---------------------------------------------------- exact interpolation
\* The pose smoother with interpolation taken as exact arithmetic: a
\* coordinate is a fraction n/d in lowest terms (d > 0), so that two
\* coordinates are equal exactly when their records are.
Rat(n, d) == [n |-> n \div Gcd(Abs(n), d), d |-> d \div Gcd(Abs(n), d)]

RatNeg(a) == [n |-> -a.n, d |-> a.d]

RatAdd(a, b) ==
    Rat(a.n * (b.d \div Gcd(a.d, b.d)) + b.n * (a.d \div Gcd(a.d, b.d)),
        a.d * (b.d \div Gcd(a.d, b.d)))

RatSub(a, b) == RatAdd(a, RatNeg(b))

\* a * p / q  (p > 0, q > 0)
RatTimes(a, p, q) ==
    Rat((a.n \div Gcd(Abs(a.n), q)) * (p \div Gcd(p, a.d)),
        (a.d \div Gcd(p, a.d)) * (q \div Gcd(Abs(a.n), q)))

\* The decimal literal h/100.
ExactLit(h) == Rat(h, 100)

ExactVec(x, y, z) == Vec(ExactLit(x), ExactLit(y), ExactLit(z))

\* One coordinate of THREE.Vector3.lerp:  x += (v.x - x) * alpha
ExactLerpCoord(x, v, pct) == RatAdd(x, RatTimes(RatSub(v, x), pct, 100))

\* THREE.Vector3.lerp(v, alpha)
ExactVecLerp(a, v, pct) ==
    Vec(ExactLerpCoord(a.x, v.x, pct), ExactLerpCoord(a.y, v.y, pct),
        ExactLerpCoord(a.z, v.z, pct))

\* createDefaultPose with its literals as exact fractions.
ExactDefaultPose ==
    [ head      |-> ExactVec(0, 80, 0),      neck      |-> ExactVec(0, 60, 0),
      shoulderL |-> ExactVec(-40, 60, 0),    shoulderR |-> ExactVec(40, 60, 0),
      hipL      |-> ExactVec(-25, -10, 0),   hipR      |-> ExactVec(25, -10, 0),
      hipCenter |-> ExactVec(0, -10, 0),     elbowL    |-> ExactVec(-80, 20, 0),
      elbowR    |-> ExactVec(80, 20, 0),     wristL    |-> ExactVec(-120, -20, 0),
      wristR    |-> ExactVec(120, -20, 0),   kneeL     |-> ExactVec(-25, -60, 0),
      kneeR     |-> ExactVec(25, -60, 0),    ankleL    |-> ExactVec(-25, -110, 0),
      ankleR    |-> ExactVec(25, -110, 0) ]

\* The samples of the exact smoother.
ExactSamples == {1, 2}

\* The position stored at index i of sample k.  Sample 2 has its left
\* shoulder and its right hip where the default pose has them, so that these
\* keypoints are skipped by the equality test while their partners and the
\* derived midpoints are advanced.
ExactSamplePoint(k, i) ==
    IF k = 2 /\ i = LandmarkMap.LEFT_SHOULDER THEN ExactVec(-16, -24, 0)
    ELSE IF k = 2 /\ i = LandmarkMap.RIGHT_HIP THEN ExactVec(10, 4, 0)
    ELSE ExactVec((((i * 3 + k * 5) % 7) - 3) * 10,
                  (((i * 5 + k) % 9) - 4) * 10,
                  (((i + 2 * k) % 5) - 2) * 5)

\* toVec3: (x * S, -y * S, -z * S)
ExactScale(v) == RatTimes(v, POSE_SCALE_TENTHS, 10)

ExactToVec3(p) == Vec(ExactScale(p.x), ExactScale(RatNeg(p.y)), ExactScale(RatNeg(p.z)))

\* toVec3(landmarks[i])
ExactAt(l, i) == ExactToVec3(ExactSamplePoint(l.id, i))

\* toVec3(a).clone().lerp(toVec3(b), 0.5)
ExactMidpoint(a, b) == ExactVecLerp(a, b, 50)

\* The `newPoints` literal built from a landmark array.
ExactMapLandmarks(l) ==
    [ head      |-> ExactAt(l, LandmarkMap.NOSE),
      neck      |-> ExactMidpoint(ExactAt(l, LandmarkMap.LEFT_SHOULDER),
                                  ExactAt(l, LandmarkMap.RIGHT_SHOULDER)),
      shoulderL |-> ExactAt(l, LandmarkMap.LEFT_SHOULDER),
      shoulderR |-> ExactAt(l, LandmarkMap.RIGHT_SHOULDER),
      hipL      |-> ExactAt(l, LandmarkMap.LEFT_HIP),
      hipR      |-> ExactAt(l, LandmarkMap.RIGHT_HIP),
      hipCenter |-> ExactMidpoint(ExactAt(l, LandmarkMap.LEFT_HIP),
                                  ExactAt(l, LandmarkMap.RIGHT_HIP)),
      elbowL    |-> ExactAt(l, LandmarkMap.LEFT_ELBOW),
      elbowR    |-> ExactAt(l, LandmarkMap.RIGHT_ELBOW),
      wristL    |-> ExactAt(l, LandmarkMap.LEFT_WRIST),
      wristR    |-> ExactAt(l, LandmarkMap.RIGHT_WRIST),
      kneeL     |-> ExactAt(l, LandmarkMap.LEFT_KNEE),
      kneeR     |-> ExactAt(l, LandmarkMap.RIGHT_KNEE),
      ankleL    |-> ExactAt(l, LandmarkMap.LEFT_ANKLE),
      ankleR    |-> ExactAt(l, LandmarkMap.RIGHT_ANKLE) ]

\* The keypoint set updatePose computes for its argument.
ExactNewPoints(l) == IF Truthy(l) THEN ExactMapLandmarks(l) ELSE ExactDefaultPose

\* The landmark values of the exact smoother: null and 33 landmarks.
ExactLandmarks ==
    {NullLandmarks} \cup {ArrayLandmarks(LandmarkCount, k) : k \in ExactSamples}

\* A keypoint loop that advances only the names read from a landmark and
\* leaves neck and hipCenter where they are.
ExactAdvancePoseMappedOnly(cur, tgt) ==
    [k \in Names |->
        IF k \notin {"neck", "hipCenter"} /\ ~VecEquals(cur[k], tgt[k])
        THEN ExactVecLerp(cur[k], tgt[k], KeypointAlphaPct)
        ELSE cur[k]]

\* The keypoint loop: each key whose current differs from its target moves
\* toward it by the factor 0.08.
ExactAdvancePose(cur, tgt) ==
    [k \in Names |->
        IF ~VecEquals(cur[k], tgt[k]) THEN ExactVecLerp(cur[k], tgt[k], KeypointAlphaPct)
        ELSE cur[k]]

\* The object literal assigned to threeState.current by mount number g.
ExactMountedState(g) ==
    [ MountedState(g) EXCEPT !.currentPoints.pts = ExactDefaultPose,
                             !.targetPoints.pts = ExactDefaultPose ]

\* threeState.current after one run of animate that was handed handle `id`.
ExactAnimateState(ts, id) ==
    [ ts EXCEPT
        !.animationFrameId = id,
        !.currentPoints =
            IF Live(ts)
            THEN [@ EXCEPT !.pts = ExactAdvancePose(@, ts.targetPoints.pts)]
            ELSE @ ]

\* The referenced objects after one run of animate.
ExactAnimateObjects(ts, th, ctl) ==
    IF ~Live(ts) THEN th
    ELSE LET cur == ExactAdvancePose(ts.currentPoints.pts, ts.targetPoints.pts)
             moved == PoseNeedsUpdate(ts.currentPoints.pts, ts.targetPoints.pts)
             zoom == MathLerp(th.scale.x, ctl.zoom, ControlAlphaPct)
         IN  [ th EXCEPT
                 !.rotationY = MathLerp(@, ctl.rotationY, ControlAlphaPct),
                 !.rotationX = MathLerp(@, ctl.rotationX, ControlAlphaPct),
                 !.scale = Vec(zoom, zoom, zoom),
                 !.geometry = IF moved THEN Connections(cur) ELSE @,
                 !.headPosition = IF moved THEN cur.head ELSE @,
                 !.buffer = DrawnOver(th.clearColor, th.clearAlpha) ]

\* The mount effect.
ExactMount ==
    /\ ~mounted
    /\ mounts < MaxMounts
    /\ LET g == mounts + 1
           ts == ExactMountedState(g)
           th == NewObjects(clientSize[1], clientSize[2])
           id == FreshHandle(pendingFrames, ts)
       IN  /\ threeState' = ExactAnimateState(ts, id)
           /\ three' = ExactAnimateObjects(ts, th, controlsRef)
           /\ pendingFrames' = pendingFrames \cup {[id |-> id, gen |-> g]}
           /\ resizeListeners' = resizeListeners \cup {g}
           /\ mountChildren' = mountChildren \cup {g}
           /\ mounts' = g
    /\ mounted' = TRUE
    /\ cleanupRuns' = 0
    /\ ticksSinceTarget' = 1
    /\ last' = Last("mount", NullLandmarks, FALSE, "none", FALSE)
    /\ UNCHANGED << hook, app, controlsRef, released, clientSize, landmarks, ticks, poseUpdates,
                    useAfterRelease, foreignTick >>

\* A frame callback the browser runs, while the budget of exact ticks lasts.
ExactFrame(f) ==
    /\ f \in pendingFrames
    /\ ticks < ExactTicks
    /\ LET rest == pendingFrames \ {f}
           id == FreshHandle(rest, threeState)
           live == Live(threeState)
       IN  /\ threeState' = ExactAnimateState(threeState, id)
           /\ three' = ExactAnimateObjects(threeState, three, controlsRef)
           /\ pendingFrames' = rest \cup {[id |-> id, gen |-> f.gen]}
           /\ ticksSinceTarget' =
                  IF live THEN Min(ticksSinceTarget + 1, ConvergeTicks) ELSE ticksSinceTarget
           /\ useAfterRelease' =
                  (useAfterRelease \/ (live /\ RendererReleased(threeState, released)))
           /\ foreignTick' = (foreignTick \/ (live /\ threeState.model # f.gen))
    /\ ticks' = ticks + 1
    /\ last' = Last("frame", NullLandmarks, FALSE, Rebuild(threeState), FALSE)
    /\ UNCHANGED << hook, app, controlsRef, resizeListeners, mountChildren, released, clientSize,
                    landmarks, mounted, mounts, cleanupRuns, poseUpdates >>

ExactTick == \E f \in pendingFrames : ExactFrame(f)

\* updatePose(l) with 33 landmarks or null.
ExactUpdatePose(l) ==
    /\ landmarks' = l
    /\ threeState' =
           IF ~threeState.targetPoints.def THEN threeState
           ELSE [threeState EXCEPT !.targetPoints =
                    Points(mounts, FreshSet(threeState.currentPoints), ExactNewPoints(l))]
    /\ ticksSinceTarget' = IF threeState.targetPoints.def THEN 0 ELSE ticksSinceTarget
    /\ last' = Last("updatePose", l, FALSE, "none",
                    threeState.targetPoints.def
                        /\ threeState.targetPoints.pts # ExactDefaultPose)
    /\ UNCHANGED << hook, app, three, controlsRef, pendingFrames, resizeListeners, mountChildren,
                    released, clientSize, mounted, mounts, cleanupRuns, ticks, poseUpdates,
                    useAfterRelease, foreignTick >>

\* The engine with exact interpolation: mounts, cleanups, frames and pose
\* updates between any two of them.
NextExact ==
    \/ ExactMount
    \/ Cleanup
    \/ ExactTick
    \/ \E l \in ExactLandmarks : ExactUpdatePose(l)

SpecExact == Init /\ [][NextExact]_vars

\* ===================================================================== claims
\* The tolerance 1e-3 of the convergence statements.
Tol == Unit \div 1000

\* Every coordinate of every keypoint of `cur` is within Tol of `tgt`.
Near(cur, tgt) ==
    \A k \in Names :
        /\ Abs(cur[k].x - tgt[k].x) <= Tol
        /\ Abs(cur[k].y - tgt[k].y) <= Tol
        /\ Abs(cur[k].z - tgt[k].z) <= Tol

\* A keypoint set holds a position for each of the 15 names.
Complete(pts) == DOMAIN pts = Names /\ Cardinality(Names) = 15

\* The last operation delivered a pose value to the engine.
PoseDelivered == last.op \in {"updatePose", "results"}

\* C1: for every landmark input to updatePose whose length is not 33 (null,
\* empty or any other length) the resulting target is the default pose and
\* no exception is raised; the target always holds all 15 names.
C1_MalformedYieldsDefault ==
    /\ threeState.targetPoints.def => Complete(threeState.targetPoints.pts)
    /\ ( /\ last.op = "updatePose"
         /\ threeState.targetPoints.def
         /\ (last.lm.kind = "null" \/ last.lm.len # LandmarkCount) )
       => (threeState.targetPoints.pts = createDefaultPose /\ ~last.threw)

\* A no-pose value (null, an empty array, a failed detection) was delivered
\* to a live engine whose target was a set mapped from landmarks.
NoPoseAfterPose ==
    PoseDelivered /\ ~Truthy(last.lm) /\ last.hadPose /\ threeState.targetPoints.def

\* C2: when a no-pose signal arrives after a valid pose was the target, the
\* target becomes the default pose, and unless a further pose arrives the
\* current keypoints eventually are within tolerance of the default.
C2_NoPoseFallsBackToDefault ==
    /\ [](NoPoseAfterPose => threeState.targetPoints.pts = createDefaultPose)
    /\ (NoPoseAfterPose
          ~> (Near(threeState.currentPoints.pts, createDefaultPose)
                 \/ HadPose(threeState)))

C2_Witness ==
    /\ NoPoseAfterPose
    /\ last.op = "results"
    /\ ~Near(threeState.currentPoints.pts, createDefaultPose)

\* A tick moved c to d for the target t: no farther from t, not past it.
Toward(c, d, t) == IF c <= t THEN c <= d /\ d <= t ELSE t <= d /\ d <= c

\* C3: ConvergeTicks (200) ticks after the target was set, with no update
\* in between, every coordinate of current is within 1e-3 of target; and no
\* tick moves a keypoint away from its target or past it.
C3_ConvergesIn200Ticks ==
    /\ []((Live(threeState) /\ ticksSinceTarget >= ConvergeTicks)
             => Near(threeState.currentPoints.pts, threeState.targetPoints.pts))
    /\ [][(last'.op = "frame" /\ Live(threeState))
             => \A k \in Names :
                    LET c == threeState.currentPoints.pts[k]
                        d == threeState'.currentPoints.pts[k]
                        t == threeState.targetPoints.pts[k]
                    IN  Toward(c.x, d.x, t.x) /\ Toward(c.y, d.y, t.y)
                            /\ Toward(c.z, d.z, t.z)]_vars

C3_Witness ==
    /\ ticksSinceTarget = ConvergeTicks
    /\ poseUpdates = MaxPoseUpdates
    /\ HadPose(threeState)
    /\ Near(threeState.currentPoints.pts, threeState.targetPoints.pts)

\* C4: the stored control target always has yaw in [-pi, pi], pitch in
\* [-pi/2, pi/2] and zoom in [0.5, 2.5].
C4_ControlsClamped ==
    /\ -Pi <= controlsRef.rotationY /\ controlsRef.rotationY <= Pi
    /\ -(Pi \div 2) <= controlsRef.rotationX /\ controlsRef.rotationX <= Pi \div 2
    /\ Lit(50) <= controlsRef.zoom /\ controlsRef.zoom <= Lit(250)

\* Every GPU resource of mount g was disposed, its canvas is out of the host
\* node and its resize listener is off the window.
ReleasedAll(g) ==
    /\ \A r \in ResourcesOf(g) : released[r] >= 1
    /\ g \notin mountChildren
    /\ g \notin resizeListeners

\* C5: the cleanup run once or twice in a row leaves the same state: empty
\* engine state, no pending frame, no resize listener, no canvas in the host
\* node, and every resource disposed exactly once.
C5_DisposeIdempotent ==
    cleanupRuns >= 1 =>
        /\ threeState = EmptyState
        /\ three = NoObjects
        /\ pendingFrames = {}
        /\ resizeListeners = {}
        /\ mountChildren = {}
        /\ ~useAfterRelease
        /\ \A r \in AllResources : released[r] = (IF r.gen <= mounts THEN 1 ELSE 0)

C5_Witness == cleanupRuns = 2 /\ last.op = "cleanup" /\ ticks >= 1

\* C6: once the cleanup has run, no frame callback of that mount is pending
\* and none runs: every pending callback belongs to the live mount, and no
\* animate closure ever ran on another mount's objects.
C6_NoTickAfterDispose ==
    /\ \A f \in pendingFrames : mounted /\ f.gen = mounts
    /\ ~foreignTick

C6_Witness == ~mounted /\ mounts = MaxMounts /\ ticks >= 1 /\ last.op = "cleanup"

\* What an operation on the engine can change.
EngineState ==
    << threeState, three, pendingFrames, resizeListeners, mountChildren, released >>

\* C7: on an engine that is not Active, captureCanvas returns null,
\* updatePose, captureCanvas and a resize notification change nothing, and
\* no operation ever uses a resource after its dispose (in particular no
\* render on a disposed renderer).
C7_InactiveOpsAreNoOps ==
    /\ [](~useAfterRelease)
    /\ []((last.op = "captureCanvas" /\ ~Active(threeState)) => last.result = "null")
    /\ [][(~Active(threeState) /\ last'.op \in {"updatePose", "captureCanvas", "resize"})
             => (EngineState' = EngineState /\ ~last'.threw)]_vars

C7_Witness ==
    /\ ~Active(threeState)
    /\ cleanupRuns >= 1
    /\ last.op = "updatePose"
    /\ Truthy(last.lm)

\* C8: after the cleanup every resource its mount created is disposed (five
\* line geometries and materials, head geometry and material, renderer),
\* the canvas is out of the host node, the resize listener is removed and
\* the engine state references none of them.
C8_AllReleasedAfterDispose ==
    /\ \A g \in 1..mounts : (g < mounts \/ ~mounted) => ReleasedAll(g)
    /\ ~mounted => threeState = EmptyState

C8_Witness == ~mounted /\ mounts >= 1 /\ ReleasedAll(mounts) /\ cleanupRuns = 1

\* C9: after a remount everything reachable from the engine state was
\* created by the latest mount, nothing of an earlier mount is left in the
\* host node, on the window or among the pending frames, and no earlier
\* mount's animate closure ran on the latest mount's objects.
C9_RemountIsFresh ==
    (mounted /\ mounts >= 2) =>
        /\ threeState.renderer = mounts /\ threeState.scene = mounts
        /\ threeState.camera = mounts /\ threeState.model = mounts
        /\ threeState.lineParts = mounts /\ threeState.headMesh = mounts
        /\ threeState.currentPoints.def /\ threeState.currentPoints.obj = mounts
        /\ threeState.targetPoints.def /\ threeState.targetPoints.obj = mounts
        /\ pendingFrames = {[id |-> threeState.animationFrameId, gen |-> mounts]}
        /\ mountChildren = {mounts}
        /\ resizeListeners = {mounts}
        /\ \A r \in ResourcesOf(mounts) : released[r] = 0
        /\ ~foreignTick

C9_Witness == mounted /\ mounts = 2 /\ last.op = "frame"

\* C10: a resize notification received while the host node's width or height
\* is 0 leaves the camera aspect and the renderer size as they were.
C10_ZeroResizeIgnored ==
    [][(last'.op = "resize" /\ (clientSize[1] = 0 \/ clientSize[2] = 0))
          => (three'.aspect = three.aspect /\ three'.size = three.size /\ ~last'.threw)]_vars

C10_Witness ==
    /\ last.op = "resize"
    /\ Active(threeState)
    /\ resizeListeners # {}
    /\ (clientSize[1] = 0 \/ clientSize[2] = 0)
    /\ three.size = <<4, 3>>

\* The host node has no area.
ZeroSized(size) == size[1] = 0 \/ size[2] = 0

\* C11: a mount effect that runs while the host node is zero-sized leaves the
\* engine uninitialized (no object referenced, no frame requested, no
\* listener, no canvas), and the engine is never Active with a zero-sized
\* renderer.
C11_ZeroSurfaceDefersInit ==
    /\ (last.op = "mount" /\ ZeroSized(clientSize))
           => /\ threeState = EmptyState
              /\ three = NoObjects
              /\ pendingFrames = {}
              /\ resizeListeners = {}
              /\ mountChildren = {}
    /\ Active(threeState) => ~ZeroSized(three.size)

\* C12: after every frame callback on a live engine each part's line
\* geometry is the part's segments at the current keypoints and the head
\* marker sits at current.head, as if the geometry were rebuilt on every
\* tick; in particular the default pose is drawn from the first tick on.
C12_GeometryAsUnconditionalRebuild ==
    (last.op = "frame" /\ Live(threeState))
        => /\ three.geometry = Connections(threeState.currentPoints.pts)
           /\ three.headPosition = threeState.currentPoints.pts.head

\* C13: captureCanvas on an Active engine returns a frame drawn over opaque
\* black, and leaves the engine such that the next captureCanvas returns
\* the same image.
C13_CaptureRepeatable ==
    [][(last'.op = "captureCanvas" /\ Active(threeState))
          => /\ CaptureImage(threeState', three') = CaptureImage(threeState, three)
             /\ CaptureImage(threeState, three).drawn
             /\ CaptureImage(threeState, three).view.clearAlpha = Unit
             /\ CanvasImage(three') = CaptureImage(threeState, three)]_vars

C13_Witness ==
    /\ last.op = "captureCanvas"
    /\ last.result = "image"
    /\ Active(threeState)
    /\ three.buffer.clearAlpha = Unit
    /\ three.clearAlpha = 0
    /\ three.geometry = Connections(threeState.currentPoints.pts)
    /\ HadPose(threeState)

\* The keypoint sets a single updatePose call can produce.
WholeTargets ==
    {createDefaultPose}
        \cup {MapLandmarks(l) : l \in {x \in LandmarkInputs : Truthy(x) /\ ~MappingThrows(x)}}

\* C14: the pose target is always the complete result of one updatePose call
\* (or the default of the mount): after a call that returned it is the set
\* computed from that call's argument, a call that throws leaves the previous
\* target, and no frame callback changes it.
C14_TargetReplacedWhole ==
    /\ [](threeState.targetPoints.def => threeState.targetPoints.pts \in WholeTargets)
    /\ []((last.op = "updatePose" /\ ~last.threw /\ threeState.targetPoints.def)
             => threeState.targetPoints.pts = NewPoints(last.lm))
    /\ [][(last'.op = "frame" \/ (last'.op = "updatePose" /\ last'.threw))
             => threeState'.targetPoints = threeState.targetPoints]_vars

C14_Witness ==
    /\ last.op = "updatePose"
    /\ last.threw
    /\ HadPose(threeState)
    /\ ticks >= 1

\* The source index the claim gives for each directly mapped name.
ClaimIndex ==
    [ head |-> 0, shoulderL |-> 11, shoulderR |-> 12, elbowL |-> 13, elbowR |-> 14,
      wristL |-> 15, wristR |-> 16, hipL |-> 23, hipR |-> 24, kneeL |-> 25,
      kneeR |-> 26, ankleL |-> 27, ankleR |-> 28 ]

\* (x * S, -y * S, -z * S) with S = 2.5
ClaimScaled(p) ==
    Vec(RoundDiv(p.x * 25, 10), -RoundDiv(p.y * 25, 10), -RoundDiv(p.z * 25, 10))

\* m is the midpoint of a and b, up to the rounding of one unit.
IsMidpoint(m, a, b) ==
    /\ Abs(2 * m.x - (a.x + b.x)) <= 1
    /\ Abs(2 * m.y - (a.y + b.y)) <= 1
    /\ Abs(2 * m.z - (a.z + b.z)) <= 1

\* updatePose was just called with 33 landmarks on an engine with a target.
MappedSample ==
    /\ last.op = "updatePose"
    /\ last.lm.kind = "array" /\ last.lm.len = LandmarkCount
    /\ threeState.targetPoints.def

\* C15: for a 33-entry sample the target holds, for each of the 13 directly
\* mapped names, (x*S, -y*S, -z*S) of the landmark at the name's index, neck
\* and hipCenter are the midpoints of the shoulders and of the hips, and the
\* target is the same for every sample that agrees at those 13 indices.
C15_LandmarkMapping ==
    MappedSample =>
        LET t == threeState.targetPoints.pts
        IN  /\ DOMAIN t = DOMAIN ClaimIndex \cup {"neck", "hipCenter"}
            /\ \A k \in DOMAIN ClaimIndex : t[k] = ClaimScaled(Entry(last.lm, ClaimIndex[k]))
            /\ IsMidpoint(t.neck, t.shoulderL, t.shoulderR)
            /\ IsMidpoint(t.hipCenter, t.hipL, t.hipR)
            /\ \A r \in Rests : MapLandmarks([last.lm EXCEPT !.rest = r]) = t

C15_Witness ==
    /\ MappedSample
    /\ last.lm.rest = 1
    /\ last.lm.id = 2
    /\ Entry(last.lm, 1) # Entry([last.lm EXCEPT !.rest = 0], 1)
    /\ threeState.targetPoints.pts.neck # threeState.targetPoints.pts.shoulderL
    /\ threeState.targetPoints.pts.head.y = -RoundDiv(Entry(last.lm, 0).y * 25, 10)
    /\ threeState.targetPoints.pts.head.y # 0

\* C16: the detector is constructed at most once and never closed, a
\* constructed detector stays the module's instance, and every consumer that
\* holds a detector holds that instance.
C16_DetectorConstructedOnce ==
    /\ [](hook.constructions <= 1)
    /\ [](~hook.closed)
    /\ [](\A c \in Consumers :
             hook.consumers[c].poseRef # 0
                 => (hook.poseInstance # 0 /\ hook.consumers[c].poseRef = hook.poseInstance))
    /\ [][hook.poseInstance # 0 => hook'.poseInstance = hook.poseInstance]_vars

C16_Witness ==
    /\ hook.joined
    /\ hook.constructions = 1
    /\ hook.op = "unmount"
    /\ \A c \in Consumers : hook.consumers[c].poseRef = hook.poseInstance
    /\ \E c \in Consumers : hook.consumers[c].isMounted /\ hook.consumers[c].isPoseReady

\* C17: a consumer that is mounted and reports isPoseReady has its own
\* listener bound on the detector, and the cleanup of one consumer leaves a
\* listener bound by another consumer in place.
C17_ReleaseDetachesOwnListener ==
    /\ [](\A c \in Consumers :
             (hook.consumers[c].isMounted /\ hook.consumers[c].isPoseReady)
                 => hook.listener = c)
    /\ [][(hook'.op = "unmount" /\ hook' # hook /\ hook.listener # hook'.by)
             => hook'.listener = hook.listener]_vars

\* The mount effect just ended with the renderer's exception.
MountFailed == last.op = "mount" /\ last.threw

\* C18: a mount whose renderer cannot be created raises its error in that
\* one step and leaves the engine empty: no object referenced, no frame
\* requested, no resize listener, no canvas in the host node, nothing to
\* release; and nothing happens to the engine afterwards until the host
\* mounts again.
C18_FailedMountLeavesNothing ==
    /\ [](MountFailed
             => /\ threeState = EmptyState
                /\ three = NoObjects
                /\ pendingFrames = {}
                /\ resizeListeners = {}
                /\ mountChildren = {}
                /\ ~mounted
                /\ \A r \in ResourcesOf(mounts) : released[r] = 0)
    /\ [][(MountFailed /\ last'.op # "mount")
             => (EngineState' = EngineState /\ ~last'.threw)]_vars

C18_Witness ==
    /\ MountFailed
    /\ mounts = 2
    /\ ticks >= 1
    /\ \A r \in ResourcesOf(1) : released[r] = 1

\* C20: a frame callback on a live engine moves the three controls toward
\* their targets and applies them to the model, advances the keypoints,
\* rebuilds the line geometry and the head position exactly when a keypoint
\* changed in this tick, and renders last, so that the frame drawn shows the
\* values of this tick.
C20_TickOrder ==
    [][(last'.op = "frame" /\ Live(threeState))
          => LET cur == threeState.currentPoints.pts
                 new == threeState'.currentPoints.pts
                 zoom == MathLerp(three.scale.x, controlsRef.zoom, ControlAlphaPct)
             IN  /\ three'.rotationY
                        = MathLerp(three.rotationY, controlsRef.rotationY, ControlAlphaPct)
                 /\ three'.rotationX
                        = MathLerp(three.rotationX, controlsRef.rotationX, ControlAlphaPct)
                 /\ three'.scale = Vec(zoom, zoom, zoom)
                 /\ new = AdvancePose(cur, threeState.targetPoints.pts)
                 /\ (last'.result = "rebuilt") <=> (new # cur)
                 /\ IF last'.result = "rebuilt"
                    THEN /\ three'.geometry = Connections(new)
                         /\ three'.headPosition = new.head
                    ELSE /\ three'.geometry = three.geometry
                         /\ three'.headPosition = three.headPosition
                 /\ CanvasImage(three') = [drawn |-> TRUE, view |-> View(three')]]_vars

\* C21: at most one frame callback is pending at any time, it belongs to the
\* live mount and animationFrameId is its handle; a frame callback that runs
\* leaves exactly one pending callback, a new one.
C21_SingleFrameLoop ==
    /\ [](/\ Cardinality(pendingFrames) <= 1
          /\ \A f \in pendingFrames :
                 /\ f.id = threeState.animationFrameId
                 /\ f.gen = mounts
                 /\ mounted)
    /\ [][last'.op = "frame"
             => /\ Cardinality(pendingFrames') = 1
                /\ pendingFrames' \cap pendingFrames = {}]_vars

C21_Witness ==
    /\ last.op = "frame"
    /\ mounts = MaxMounts
    /\ ticks = MaxTicks
    /\ Cardinality(pendingFrames) = 1
    /\ \A f \in pendingFrames : f.id = threeState.animationFrameId /\ f.id # 0

\* C22: a resize notification on an Active engine whose host node has a
\* nonzero width and height sets the camera aspect to width / height and the
\* renderer size to (width, height), and leaves the current and target
\* keypoints, the control target, the model's rotation and scale, the line
\* geometry and the clear colour as they were.
C22_ResizeKeepsSmootherState ==
    [][(/\ last'.op = "resize"
        /\ Active(threeState)
        /\ resizeListeners # {}
        /\ clientSize[1] > 0 /\ clientSize[2] > 0)
          => /\ three'.aspect.kind = "finite"
             /\ three'.aspect.num * clientSize[2] = three'.aspect.den * clientSize[1]
             /\ three'.size = clientSize
             /\ threeState' = threeState
             /\ controlsRef' = controlsRef
             /\ three'.rotationY = three.rotationY
             /\ three'.rotationX = three.rotationX
             /\ three'.scale = three.scale
             /\ three'.geometry = three.geometry
             /\ three'.headPosition = three.headPosition
             /\ three'.clearColor = three.clearColor
             /\ three'.clearAlpha = three.clearAlpha
             /\ ~last'.threw]_vars

C22_Witness ==
    /\ last.op = "resize"
    /\ Active(threeState)
    /\ three.size = <<8, 3>>
    /\ three.aspect = Ratio(8, 3)
    /\ three.rotationY # 0
    /\ three.rotationY # controlsRef.rotationY
    /\ HadPose(threeState)
    /\ threeState.currentPoints.pts # threeState.targetPoints.pts
    /\ threeState.currentPoints.pts # createDefaultPose

\* C23: captureCanvas on an Active engine draws a frame over a fully opaque
\* background and returns with the renderer's clear colour and clear alpha
\* as they were before the call; the current and target keypoints, the
\* control target and the model's rotation and scale are unchanged.
C23_CaptureRestoresBackground ==
    [][(last'.op = "captureCanvas" /\ Active(threeState))
          => /\ last'.result = "image"
             /\ three'.buffer.drawn
             /\ three'.buffer.clearAlpha = Unit
             /\ three'.clearColor = three.clearColor
             /\ three'.clearAlpha = three.clearAlpha
             /\ threeState' = threeState
             /\ controlsRef' = controlsRef
             /\ three'.rotationY = three.rotationY
             /\ three'.rotationX = three.rotationX
             /\ three'.scale = three.scale
             /\ ~last'.threw]_vars

C23_Witness ==
    /\ last.op = "captureCanvas"
    /\ last.result = "image"
    /\ three.buffer = DrawnOver(0, Unit)
    /\ three.clearAlpha = 0
    /\ three.rotationY # 0
    /\ three.rotationY # controlsRef.rotationY
    /\ HadPose(threeState)
    /\ threeState.currentPoints.pts # threeState.targetPoints.pts

\* C24: the current and the target keypoints are never the same object
\* (after the mount, after updatePose with landmarks and after updatePose
\* with null alike), a frame callback leaves the target as it was, and so
\* the target stays the set the last updatePose call produced.
C24_TargetNotAliased ==
    /\ []((threeState.currentPoints.def /\ threeState.targetPoints.def)
             => threeState.currentPoints.id # threeState.targetPoints.id)
    /\ []((last.op = "updatePose" /\ ~last.threw /\ threeState.targetPoints.def)
             => threeState.targetPoints.pts = NewPoints(last.lm))
    /\ [][last'.op = "frame"
             => /\ threeState'.targetPoints = threeState.targetPoints
                /\ landmarks' = landmarks
                /\ (threeState.targetPoints.pts = NewPoints(landmarks)
                       => threeState'.targetPoints.pts = NewPoints(landmarks'))]_vars

C24_Witness ==
    /\ last.op = "frame"
    /\ ticks = MaxTicks
    /\ Live(threeState)
    /\ Truthy(landmarks)
    /\ threeState.targetPoints.pts = MapLandmarks(landmarks)
    /\ threeState.currentPoints.pts # createDefaultPose
    /\ threeState.currentPoints.pts # threeState.targetPoints.pts
    /\ threeState.currentPoints.id # threeState.targetPoints.id

\* One tick moved the control value c to d for the target t: by a tenth of
\* the distance to t (up to the rounding of the result), and not past t.
TenthToward(c, d, t) == Abs(10 * (d - c) - (t - c)) <= 5 /\ Toward(c, d, t)

\* C25: every frame callback on a live engine moves the model's yaw, pitch
\* and zoom each by a tenth of the distance to its own target and not past
\* it; with every control target inside its range, yaw stays in [-pi, pi],
\* pitch in [-pi/2, pi/2] and zoom in [0.5, 2.5], and the model's scale is
\* the same on the three axes.
C25_ControlsSmoothedInRange ==
    /\ [][(last'.op = "frame" /\ Live(threeState))
             => /\ TenthToward(three.rotationY, three'.rotationY, controlsRef.rotationY)
                /\ TenthToward(three.rotationX, three'.rotationX, controlsRef.rotationX)
                /\ TenthToward(three.scale.x, three'.scale.x, controlsRef.zoom)]_vars
    /\ [](Live(threeState)
             => /\ -Pi <= three.rotationY /\ three.rotationY <= Pi
                /\ -(Pi \div 2) <= three.rotationX /\ three.rotationX <= Pi \div 2
                /\ Lit(50) <= three.scale.x /\ three.scale.x <= Lit(250)
                /\ three.scale.y = three.scale.x /\ three.scale.z = three.scale.x)

C25_Witness ==
    /\ last.op = "frame"
    /\ AtRest
    /\ controlsRef.rotationY = Pi
    /\ Pi - three.rotationY <= 10
    /\ three.rotationX - controlsRef.rotationX <= 10
    /\ Lit(250) - three.scale.x <= 10

\* The segments a LineSegments object draws from a list of points.
Pairs(seq) == {{seq[2 * i - 1], seq[2 * i]} : i \in 1..(Len(seq) \div 2)}

\* The segment list the claim gives for each part.
ClaimSegments ==
    [ torso |-> {{"head", "neck"}, {"neck", "shoulderL"}, {"neck", "shoulderR"},
                 {"neck", "hipCenter"}},
      armL  |-> {{"shoulderL", "elbowL"}, {"elbowL", "wristL"}},
      armR  |-> {{"shoulderR", "elbowR"}, {"elbowR", "wristR"}},
      legL  |-> {{"hipCenter", "hipL"}, {"hipL", "kneeL"}, {"kneeL", "ankleL"}},
      legR  |-> {{"hipCenter", "hipR"}, {"hipR", "kneeR"}, {"kneeR", "ankleR"}} ]

\* All segments drawn, over all parts.
AllSegments == UNION {Pairs(ConnectionNames[p]) : p \in PartSet}

\* The names joined to a name of `seen` by a chain of segments.
RECURSIVE Joined(_)
Joined(seen) ==
    LET more == seen \cup UNION {e \in AllSegments : e \cap seen # {}}
    IN  IF more = seen THEN seen ELSE Joined(more)

\* The line geometry drawn from the keypoints `cur`.
Drawn(cur) ==
    [p \in PartSet |->
        [i \in 1..Len(ConnectionNames[p]) |-> cur[ConnectionNames[p][i]]]]

\* A frame callback has just rebuilt the line geometry.
JustRebuilt == last.op = "frame" /\ last.result = "rebuilt" /\ Live(threeState)

\* The figure as a whole: the segments of all parts together are those the
\* claim lists, they end at the 15 names and at every one of them, and they
\* form one connected figure.
WholeFigure ==
    JustRebuilt =>
        /\ three.geometry = Drawn(threeState.currentPoints.pts)
        /\ AllSegments = UNION {ClaimSegments[p] : p \in PartSet}
        /\ UNION AllSegments = Names
        /\ Cardinality(Names) = 15
        /\ Joined({"head"}) = Names

\* C26: when the geometry is rebuilt, the torso part draws head-neck,
\* neck-shoulderL, neck-shoulderR and neck-hipCenter, each arm part draws
\* shoulder-elbow and elbow-wrist, each leg part draws hipCenter-hip,
\* hip-knee and knee-ankle; the segments end at the 15 names, at every one of
\* them, and form one connected figure.
C26_SegmentLists ==
    JustRebuilt =>
        /\ three.geometry = Drawn(threeState.currentPoints.pts)
        /\ \A p \in PartSet : Pairs(ConnectionNames[p]) = ClaimSegments[p]
        /\ UNION AllSegments = Names
        /\ Cardinality(Names) = 15
        /\ Joined({"head"}) = Names

\* C27: a detector result delivered to the listener of a mounted consumer
\* has one of two outcomes: with exactly 33 world landmarks onResults gets
\* those landmarks, poseError becomes null and onError is not called; with
\* any other shape (no results, null, another length) onResults gets null,
\* poseError becomes a message and onError is called once, with that message.
C27_ResultOutcomes ==
    [][(/\ hook'.op = "results"
        /\ hook'.by # 0
        /\ hook.consumers[hook'.by].isMounted)
          => LET c == hook'.by
                 r == hook'.got
             IN  /\ IF r.has /\ r.lm.kind = "array" /\ r.lm.len = 33
                    THEN /\ hook'.onResults = <<r.lm>>
                         /\ hook'.consumers[c].poseError = NoError
                         /\ hook'.onError = <<>>
                    ELSE /\ hook'.onResults = <<NullLandmarks>>
                         /\ hook'.consumers[c].poseError # NoError
                         /\ hook'.onError = <<hook'.consumers[c].poseError>>
                 /\ c = AppConsumer
                        => (landmarks' = hook'.onResults[1] /\ ~app'.isProcessing)]_vars

C27_Witness ==
    /\ hook.op = "results"
    /\ hook.by = AppConsumer
    /\ hook.consumers[AppConsumer].isMounted
    /\ hook.got.has
    /\ hook.got.lm.kind = "array"
    /\ hook.got.lm.len = 28
    /\ hook.onResults = <<NullLandmarks>>
    /\ hook.onError = <<MsgNoPose>>

\* C28: while a consumer is released, no detector result, no completion and
\* no failure of the initialization calls its onResults or onError or changes
\* its isPoseReady, poseError or poseRef, and none binds a listener for it:
\* the detector's listener always belongs to a mounted consumer.
C28_ReleasedConsumerUntouched ==
    /\ [](hook.listener # 0 => hook.consumers[hook.listener].isMounted)
    /\ [][\A c \in Consumers :
             (/\ ~hook.consumers[c].isMounted
              /\ ~hook'.consumers[c].isMounted
              /\ hook'.op # "processImage")
                => /\ hook'.consumers[c].isPoseReady = hook.consumers[c].isPoseReady
                   /\ hook'.consumers[c].poseError = hook.consumers[c].poseError
                   /\ hook'.consumers[c].poseRef = hook.consumers[c].poseRef
                   /\ hook'.listener # c
                   /\ hook'.by = c => (hook'.onResults = <<>> /\ hook'.onError = <<>>)]_vars

C28_Witness ==
    /\ hook.op = "resumeReleased"
    /\ hook.posePromise = "resolved"
    /\ ~hook.consumers[hook.by].isMounted
    /\ hook.consumers[hook.by].poseRef = 0
    /\ ~hook.consumers[hook.by].isPoseReady
    /\ hook.listener # 0
    /\ hook.listener # hook.by

\* C29: processImage sends the image only when its consumer is ready
\* (isPoseReady is true and poseRef is set); when the consumer is not ready,
\* and whenever it does not send, it sets poseError and calls onError once.
\* isPoseReady becomes true only in the step that has bound the consumer's
\* listener.
C29_SendOnlyWhenReady ==
    /\ [][hook'.op = "processImage"
             => LET c == hook'.by
                    ready == hook.consumers[c].isPoseReady /\ hook.consumers[c].poseRef # 0
                    sent == hook'.inFlight = hook.inFlight + 1
                IN  /\ sent => (/\ ready
                                /\ hook'.onError = <<>>
                                /\ hook'.consumers[c] = hook.consumers[c])
                    /\ ~ready => ~sent
                    /\ ~sent => (/\ hook'.inFlight = hook.inFlight
                                 /\ hook'.consumers[c].poseError = MsgNotReady
                                 /\ hook'.onError = <<MsgNotReady>>)]_vars
    /\ [][\A c \in Consumers :
             (hook'.consumers[c].isPoseReady /\ ~hook.consumers[c].isPoseReady)
                => (hook'.listener = c /\ hook'.consumers[c].poseRef # 0)]_vars

C29_Witness ==
    /\ hook.op = "processImage"
    /\ hook.inFlight = MaxUploads
    /\ hook.onError = <<>>
    /\ hook.consumers[hook.by].isPoseReady
    /\ hook.consumers[hook.by].poseError = MsgNotReady

\* C30: whenever isProcessing is true it becomes false later: every upload
\* comes to an end that clears the flag.
C30_ProcessingEnds == app.isProcessing ~> ~app.isProcessing

\* C31: whenever the engine is Active and the host has called updatePose,
\* the pose target is the set derived from the argument of the most recent
\* call: the mapped set for landmarks, the default pose for null.  The
\* variable landmarks holds that argument; it is null before the first call,
\* when the target of an Active engine is the default pose of its mount.
C31_TargetFollowsLastCall ==
    Active(threeState) => threeState.targetPoints.pts = NewPoints(landmarks)

\* a + b = 2 * m in every coordinate, exactly.
ExactlyMidpoint(m, a, b) ==
    /\ RatAdd(a.x, b.x) = RatTimes(m.x, 2, 1)
    /\ RatAdd(a.y, b.y) = RatTimes(m.y, 2, 1)
    /\ RatAdd(a.z, b.z) = RatTimes(m.z, 2, 1)

\* C32: with interpolation as exact arithmetic, in every state of an Active
\* engine current.neck is the midpoint of current.shoulderL and
\* current.shoulderR, and current.hipCenter is the midpoint of current.hipL
\* and current.hipR.
C32_DerivedStayMidpoints ==
    Active(threeState) =>
        LET c == threeState.currentPoints.pts
        IN  /\ ExactlyMidpoint(c.neck, c.shoulderL, c.shoulderR)
            /\ ExactlyMidpoint(c.hipCenter, c.hipL, c.hipR)

\* After three ticks and a replaced target, the left shoulder was skipped
\* (it is where the default pose and the target both have it) while the neck
\* and the right shoulder are under way, away from both their start and their
\* target.
C32_Witness ==
    /\ Active(threeState)
    /\ ticks = ExactTicks
    /\ last.op = "frame"
    /\ landmarks = ArrayLandmarks(LandmarkCount, 2)
    /\ LET c == threeState.currentPoints.pts
           t == threeState.targetPoints.pts
       IN  /\ c.shoulderL = ExactDefaultPose.shoulderL
           /\ c.shoulderL = t.shoulderL
           /\ c.shoulderR # t.shoulderR /\ c.shoulderR # ExactDefaultPose.shoulderR
           /\ c.neck # t.neck /\ c.neck # ExactDefaultPose.neck
           /\ c.hipR = t.hipR /\ c.hipL # t.hipL /\ c.hipCenter # t.hipCenter

\* The hook instance of consumer c is mounted and its setupPose is suspended
\* at `await initializePoseSingleton()`.
Waiting(c) == hook.consumers[c].isMounted /\ hook.consumers[c].awaiting

\* Consumer c reports ready and the detector holds its result listener.
ReadyAndBound(c) == hook.consumers[c].isPoseReady /\ hook.listener = c

\* The last operation called some consumer's onError.
ErrorDelivered == hook.onError # <<>>

\* C33: once the detector class is available, a construction that succeeds
\* ends the polling and every consumer that stays mounted eventually has
\* isPoseReady = true with its result listener bound; when the construction
\* throws, every mounted consumer, mounted then or later, receives the error
\* exactly once (poseError set and onError called once, by the one
\* continuation of its setupPose), and no construction is attempted again.
C33_InitializationOutcomes ==
    /\ [](hook.constructions > 0 => hook.pollers = 0)
    /\ \A c \in Consumers :
          (Waiting(c) /\ hook.poseDefined)
              ~> (\/ ~hook.consumers[c].isMounted
                  \/ ReadyAndBound(c)
                  \/ hook.posePromise = "rejected")
    /\ \A c \in Consumers :
          (Waiting(c) /\ hook.posePromise = "rejected")
              ~> (\/ ~hook.consumers[c].isMounted
                  \/ (~hook.consumers[c].awaiting
                        /\ hook.consumers[c].poseError = MsgLoad))
    /\ [](\A c \in Consumers :
             (hook.posePromise = "rejected" /\ hook.consumers[c].isMounted
                  /\ ~hook.consumers[c].awaiting)
                 => (hook.consumers[c].poseError = MsgLoad
                        /\ ~hook.consumers[c].isPoseReady))
    /\ [][ErrorDelivered' =>
             /\ hook'.onError = <<MsgLoad>>
             /\ hook'.op = "resume"
             /\ hook'.by \in Consumers
             /\ Waiting(hook'.by)
             /\ ~hook'.consumers[hook'.by].awaiting
             /\ hook'.consumers[hook'.by].poseError = MsgLoad
             /\ \A d \in Consumers \ {hook'.by} :
                    hook'.consumers[d] = hook.consumers[d]]_vars
    /\ [](hook.posePromise = "rejected" => hook.constructions = 1)
    /\ [][hook.posePromise = "rejected" =>
             /\ hook'.posePromise = "rejected"
             /\ hook'.constructions = hook.constructions
             /\ hook'.pollers = 0]_vars

\* The script loaded after the first request (a second request joined the
\* pending promise), the construction succeeded, and every consumer is
\* mounted and ready; the one that resumed last holds the listener.
C33_Witness ==
    /\ hook.joined
    /\ hook.posePromise = "resolved"
    /\ hook.constructions = 1
    /\ hook.pollers = 0
    /\ hook.op = "resume"
    /\ ReadyAndBound(hook.by)
    /\ \A c \in Consumers : hook.consumers[c].isMounted /\ hook.consumers[c].isPoseReady

====
